---- MODULE Spec2Model ----
(***************************************************************************)
(* Price-extraction engine of pricewatch (app/scraper.py).                 *)
(*                                                                         *)
(* Text is a sequence of one-character strings.  Amounts are fixed-point   *)
(* integers in hundredths (79.99 is 7999).  An optional value is a         *)
(* sequence of length at most one: <<>> is Python's None, <<v>> is v.      *)
(* A parsed JSON value is a record tagged by its field k.                  *)
(***************************************************************************)
EXTENDS Integers, Sequences, FiniteSets, TLC

----------------------------------------------------------------------------
(* Characters and strings *)

DigitChars == <<"0", "1", "2", "3", "4", "5", "6", "7", "8", "9">>

Digits == {DigitChars[i] : i \in 1..10}

UpperChars == <<"A", "B", "C", "D", "E", "F", "G", "H", "I", "J", "K", "L", "M",
                "N", "O", "P", "Q", "R", "S", "T", "U", "V", "W", "X", "Y", "Z">>

LowerChars == <<"a", "b", "c", "d", "e", "f", "g", "h", "i", "j", "k", "l", "m",
                "n", "o", "p", "q", "r", "s", "t", "u", "v", "w", "x", "y", "z">>

Letters == {UpperChars[i] : i \in 1..26} \cup {LowerChars[i] : i \in 1..26}

Whitespace == {" ", "\n", "\t"}

IsAlnum(c) == c \in Digits \cup Letters

DigitVal(c) == (CHOOSE i \in 1..10 : DigitChars[i] = c) - 1

Min(a, b) == IF a <= b THEN a ELSE b

None == <<>>

Some(v) == <<v>>

\* str.lower() on one character and on a string
LowerChar(c) ==
    IF \E i \in 1..26 : UpperChars[i] = c
    THEN LowerChars[CHOOSE i \in 1..26 : UpperChars[i] = c]
    ELSE c

Lower(s) == [i \in 1..Len(s) |-> LowerChar(s[i])]

\* Python's `w in s` for strings
Contains(s, w) ==
    \E i \in 0..(Len(s) - Len(w)) : \A j \in 1..Len(w) : s[i + j] = w[j]

\* s[:n]
Truncate(s, n) == SubSeq(s, 1, Min(Len(s), n))

\* str.strip()
RECURSIVE LStrip(_)
LStrip(s) == IF s # <<>> /\ Head(s) \in Whitespace THEN LStrip(Tail(s)) ELSE s

RECURSIVE RStrip(_)
RStrip(s) ==
    IF s # <<>> /\ s[Len(s)] \in Whitespace
    THEN RStrip(SubSeq(s, 1, Len(s) - 1))
    ELSE s

Strip(s) == RStrip(LStrip(s))

\* str.replace(",", "")
RemoveCommas(s) == SelectSeq(s, LAMBDA c : c # ",")

\* " ".join(parts)
RECURSIVE JoinSpace(_)
JoinSpace(parts) ==
    IF parts = <<>> THEN <<>>
    ELSE IF Len(parts) = 1 THEN parts[1]
    ELSE parts[1] \o <<" ">> \o JoinSpace(Tail(parts))

\* re.sub(r"\s+", " ", s)
RECURSIVE CollapseWs(_)
CollapseWs(s) ==
    IF s = <<>> THEN <<>>
    ELSE IF Head(s) \in Whitespace
         THEN <<" ">> \o CollapseWs(LStrip(s))
         ELSE <<Head(s)>> \o CollapseWs(Tail(s))

----------------------------------------------------------------------------
(* PRICE_REGEX *)

\* value of a string of digits
RECURSIVE DigitsToInt(_)
DigitsToInt(s) ==
    IF s = <<>> THEN 0
    ELSE 10 * DigitsToInt(SubSeq(s, 1, Len(s) - 1)) + DigitVal(s[Len(s)])

\* length of the run of digits that starts at position i
RECURSIVE DigitRun(_, _)
DigitRun(t, i) ==
    IF i <= Len(t) /\ t[i] \in Digits THEN 1 + DigitRun(t, i + 1) ELSE 0

\* (?![A-Za-z0-9]) at position e, the position after the match
LookaheadOK(t, e) == e > Len(t) \/ ~IsAlnum(t[e])

\* (?<![A-Za-z0-9]) at position i, the position where the match starts
LookbehindOK(t, i) == i = 1 \/ ~IsAlnum(t[i - 1])

\* \.[0-9]{2} at position q
HasDec(t, q) ==
    /\ q + 2 <= Len(t)
    /\ t[q] = "."
    /\ t[q + 1] \in Digits
    /\ t[q + 2] \in Digits

\* number of consecutive ,[0-9]{3} groups that start at position p
RECURSIVE CommaGroups(_, _)
CommaGroups(t, p) ==
    IF /\ p + 3 <= Len(t)
       /\ t[p] = ","
       /\ \A d \in 1..3 : t[p + d] \in Digits
    THEN 1 + CommaGroups(t, p + 4)
    ELSE 0

\* (?:\.[0-9]{2})? then the lookahead, at position q: the position after the
\* match, 0 when neither choice passes the lookahead
TailEnd(t, q) ==
    IF HasDec(t, q) /\ LookaheadOK(t, q + 3) THEN q + 3
    ELSE IF LookaheadOK(t, q) THEN q
    ELSE 0

\* the first of two match ends that is one (0 is no match)
OrElse(e, other) == IF e # 0 THEN e ELSE other

\* variant: the comma groups are never taken
GroupsEnd_None(t, p, k) == TailEnd(t, p)

\* (?:,[0-9]{3})* at position p, greedy: k groups first, then fewer
RECURSIVE GroupsEnd(_, _, _)
GroupsEnd(t, p, k) ==
    OrElse(TailEnd(t, p + 4 * k), IF k = 0 THEN 0 ELSE GroupsEnd(t, p, k - 1))

\* first alternative, [0-9]{1,3}(?:,[0-9]{3})*(?:\.[0-9]{2})?, at position j,
\* greedy: d leading digits first, then fewer
RECURSIVE AltGrouped(_, _, _)
AltGrouped(t, j, d) ==
    IF d = 0 THEN 0
    ELSE OrElse(GroupsEnd(t, j + d, CommaGroups(t, j + d)), AltGrouped(t, j, d - 1))

\* second alternative, [0-9]+(?:\.[0-9]{2}), at position j, greedy
RECURSIVE AltPlain(_, _, _)
AltPlain(t, j, n) ==
    IF n = 0 THEN 0
    ELSE IF HasDec(t, j + n) /\ LookaheadOK(t, j + n + 3) THEN j + n + 3
    ELSE AltPlain(t, j, n - 1)

\* variant: [0-9]+ in place of [0-9]{1,3} in the first alternative
NumberEndOfRun_AnyLength(t, j, run) == OrElse(AltGrouped(t, j, run), AltPlain(t, j, run))

\* the two alternatives of group 2 on a run of digits of length run
NumberEndOfRun(t, j, run) == OrElse(AltGrouped(t, j, Min(3, run)), AltPlain(t, j, run))

\* group 2 and the lookahead at position j: the position after the match, or 0
NumberEnd(t, j) == NumberEndOfRun(t, j, DigitRun(t, j))

\* position after \s* at position p
RECURSIVE SkipWs(_, _)
SkipWs(t, p) ==
    IF p <= Len(t) /\ t[p] \in Whitespace THEN SkipWs(t, p + 1) ELSE p

\* position where group 2 starts when the match starts at i: after the
\* marker (\$|USD\s*) when it is there, at i otherwise
NumberStart(t, i) ==
    IF t[i] = "$" THEN i + 1
    ELSE IF i + 2 <= Len(t) /\ SubSeq(t, i, i + 2) = <<"U", "S", "D">>
         THEN SkipWs(t, i + 3)
    ELSE i

NoMatch == [matched |-> FALSE, marker |-> FALSE, group2 |-> <<>>]

RECURSIVE SearchFrom(_, _)

\* the match that starts at i with group 2 on t[j..e-1], or the search from
\* i + 1 when there is none (e = 0)
MatchOrNext(t, i, j, e) ==
    IF e # 0
    THEN [matched |-> TRUE, marker |-> j # i, group2 |-> SubSeq(t, j, e - 1)]
    ELSE SearchFrom(t, i + 1)

\* the attempt at position i with group 2 starting at j
AttemptAt(t, i, j) ==
    MatchOrNext(t, i, j, IF LookbehindOK(t, i) THEN NumberEnd(t, j) ELSE 0)

\* the leftmost match that starts at position i or later
SearchFrom(t, i) ==
    IF i > Len(t) THEN NoMatch ELSE AttemptAt(t, i, NumberStart(t, i))

\* PRICE_REGEX.search(t): the leftmost match
PRICE_REGEX_search(t) == SearchFrom(t, 1)

\* float(s) for a string of digits with an optional two-digit decimal part,
\* in hundredths
PlainToCents(s) ==
    IF Len(s) >= 3 /\ s[Len(s) - 2] = "."
    THEN 100 * DigitsToInt(SubSeq(s, 1, Len(s) - 3))
         + DigitsToInt(SubSeq(s, Len(s) - 1, Len(s)))
    ELSE 100 * DigitsToInt(s)

\* float(m.group(2).replace(",", ""))
MatchValue(m) == PlainToCents(RemoveCommas(m.group2))

----------------------------------------------------------------------------
(* Parsed JSON values (the results of json.loads) *)

JNull == [k |-> "null"]

JBool(b) == [k |-> "bool", b |-> b]

\* a JSON number, in hundredths
JNum(n) == [k |-> "num", n |-> n]

JStr(s) == [k |-> "str", s |-> s]

JList(items) == [k |-> "list", items |-> items]

\* a JSON object: f is a record of its members
JObj(f) == [k |-> "obj", f |-> f]

\* Python truthiness of a JSON value
Truthy(v) ==
    CASE v.k = "null" -> FALSE
      [] v.k = "bool" -> v.b
      [] v.k = "num"  -> v.n # 0
      [] v.k = "str"  -> v.s # <<>>
      [] v.k = "list" -> v.items # <<>>
      [] v.k = "obj"  -> DOMAIN v.f # {}

\* dict.get(key) and dict.get(key, default)
DictGet(obj, key, default) ==
    IF key \in DOMAIN obj.f THEN obj.f[key] ELSE default

\* float of the integer part int and the fraction digits frac
ParseParts(int, frac) ==
    IF DigitRun(frac, 1) = Len(frac) /\ (int # <<>> \/ frac # <<>>)
    THEN Some(100 * DigitsToInt(int) + DigitsToInt(Truncate(frac \o <<"0", "0">>, 2)))
    ELSE None

\* float of the unsigned string b, whose leading run of digits has length n
ParseSplit(b, n) ==
    IF n = Len(b) THEN ParseParts(b, <<>>)
    ELSE IF b[n + 1] = "." THEN ParseParts(SubSeq(b, 1, n), SubSeq(b, n + 2, Len(b)))
    ELSE None

ParseUnsigned(b) == ParseSplit(b, DigitRun(b, 1))

Negate(v) == IF v = None THEN None ELSE Some(0 - v[1])

ParseSigned(s) ==
    IF s = <<>> THEN None
    ELSE IF s[1] = "-" THEN Negate(ParseUnsigned(Tail(s)))
    ELSE IF s[1] = "+" THEN ParseUnsigned(Tail(s))
    ELSE ParseUnsigned(s)

\* float(s) for a string in decimal notation, [sign] digits [. digits], in
\* hundredths (fraction digits after the second are dropped): None when
\* float(s) raises ValueError
ParseFloat(str) == ParseSigned(Strip(str))

\* float(str(price).replace(",", "")): None when it raises
FloatOfPrice(price) ==
    CASE price.k = "num" -> Some(price.n)
      [] price.k = "str" -> ParseFloat(RemoveCommas(price.s))
      [] OTHER           -> None

----------------------------------------------------------------------------
(* The parsed document (BeautifulSoup(html, "lxml")).                      *)
(* A document is the sequence of its elements in document order; parent is *)
(* the index of the parent element, 0 for the BeautifulSoup object itself. *)
(* attrs is a record of the element's attributes, texts the sequence of    *)
(* its direct text nodes (placed before its child elements).  A script     *)
(* element carries the outcome of json.loads on its content.               *)

Node(tag, parent, attrs, texts) ==
    [tag |-> tag, parent |-> parent, attrs |-> attrs, texts |-> texts]

ScriptNode(parent, json) ==
    [tag |-> "script", parent |-> parent,
     attrs |-> [type |-> "application/ld+json"], texts |-> <<>>, json |-> json]

\* outcome of json.loads(tag.string or "")
Malformed == [malformed |-> TRUE]

Loaded(data) == [malformed |-> FALSE, data |-> data]

\* el.get(name), None when the attribute is absent
Attr(el, name) == IF name \in DOMAIN el.attrs THEN Some(el.attrs[name]) ELSE None

\* el.get(name) or ""
AttrOrEmpty(el, name) == IF name \in DOMAIN el.attrs THEN el.attrs[name] ELSE <<>>

\* n is el or one of its descendants (0 is the BeautifulSoup object)
RECURSIVE IsWithin(_, _, _)
IsWithin(soup, n, el) ==
    IF n = el THEN TRUE
    ELSE IF n = 0 THEN FALSE
    ELSE IsWithin(soup, soup[n].parent, el)

\* the stripped, non-empty text nodes of a sequence of text nodes
StrippedChunks(texts) ==
    SelectSeq([i \in 1..Len(texts) |-> Strip(texts[i])], LAMBDA c : c # <<>>)

\* the text nodes under el, in document order, from element n on
RECURSIVE ChunksFrom(_, _, _)
ChunksFrom(soup, el, n) ==
    IF n > Len(soup) THEN <<>>
    ELSE (IF IsWithin(soup, n, el) THEN StrippedChunks(soup[n].texts) ELSE <<>>)
         \o ChunksFrom(soup, el, n + 1)

\* el.get_text(" ", strip=True)
GetText(soup, el) == JoinSpace(ChunksFrom(soup, el, 1))

\* _text(el)
ElText(soup, el) == CollapseWs(GetText(soup, el))

\* the elements of the document, in document order
Elements(soup) == [i \in 1..Len(soup) |-> i]

\* the first element of a list of elements, or None
FirstOf(ts) == IF ts = <<>> THEN None ELSE Some(ts[1])

----------------------------------------------------------------------------
(* extract_title *)

TITLE_MAX == 200

\* soup.title: the first title element, None when there is none
SoupTitle(soup) ==
    FirstOf(SelectSeq(Elements(soup), LAMBDA i : soup[i].tag = "title"))

\* Tag.string: the only text node of the element, None otherwise
TagString(soup, el) ==
    IF Len(soup[el].texts) = 1 /\ ~\E n \in 1..Len(soup) : soup[n].parent = el
    THEN Some(soup[el].texts[1])
    ELSE None

\* if not soup.title.string: return None; .strip()[:200]
StringTitle(str) ==
    IF str # None /\ str[1] # <<>>
    THEN Some(Truncate(Strip(str[1]), TITLE_MAX))
    ELSE None

\* if not soup.title: return None
TitleOf(soup, t) == IF t # None THEN StringTitle(TagString(soup, t[1])) ELSE None

\* the slice taken before the strip
extract_title_TruncatesFirst(soup) ==
    LET t == SoupTitle(soup)
    IN  IF t # None /\ TagString(soup, t[1]) # None /\ TagString(soup, t[1])[1] # <<>>
        THEN Some(Strip(Truncate(TagString(soup, t[1])[1], TITLE_MAX)))
        ELSE None

extract_title(soup) == TitleOf(soup, SoupTitle(soup))

----------------------------------------------------------------------------
(* parse_price_from_jsonld *)

USD == <<"U", "S", "D">>

\* what a strategy gives: nothing, a (price, currency) pair, or an exception
\* that leaves the strategy
NoResult == [raised |-> FALSE, value |-> None]

Found(price, currency) ==
    [raised |-> FALSE, value |-> Some([price |-> price, currency |-> currency])]

Raised == [raised |-> TRUE, value |-> None]

RECURSIVE JsonldItems(_, _)

\* return float(...), currency; the next item when float raised
Converted(items, i, val, currency) ==
    IF val # None THEN Found(val[1], currency) ELSE JsonldItems(items, i + 1)

\* if price is not None: ...
PriceOf(items, i, price, currency) ==
    IF price.k = "null" THEN JsonldItems(items, i + 1)
    ELSE Converted(items, i, FloatOfPrice(price), currency)

\* price = offers.get("price"); currency = offers.get("priceCurrency", "USD")
OfferOf(items, i, offers) ==
    IF offers.k # "obj" THEN Raised
    ELSE PriceOf(items, i, DictGet(offers, "price", JNull),
                 DictGet(offers, "priceCurrency", JStr(USD)))

\* if not offers: continue; if isinstance(offers, list): offers = offers[0]
OffersOf(items, i, offers) ==
    IF ~Truthy(offers) THEN JsonldItems(items, i + 1)
    ELSE OfferOf(items, i, IF offers.k = "list" THEN offers.items[1] ELSE offers)

\* the loop over the items of one block, from item i on
JsonldItems(items, i) ==
    IF i > Len(items) THEN NoResult
    ELSE IF items[i].k # "obj" THEN Raised
    ELSE OffersOf(items, i, DictGet(items[i], "offers", JNull))

RECURSIVE JsonldTags(_, _, _)

\* what the items of block i gave, or the next block when it was nothing
BlockResult(soup, tags, i, r) ==
    IF r = NoResult THEN JsonldTags(soup, tags, i + 1) ELSE r

\* items = data if isinstance(data, list) else [data]
BlockOf(soup, tags, i, data) ==
    BlockResult(soup, tags, i,
                JsonldItems(IF data.k = "list" THEN data.items ELSE <<data>>, 1))

\* the loop over the script blocks, from block i of tags on
JsonldTags(soup, tags, i) ==
    IF i > Len(tags) THEN NoResult
    ELSE IF soup[tags[i]].json.malformed THEN JsonldTags(soup, tags, i + 1)
    ELSE BlockOf(soup, tags, i, soup[tags[i]].json.data)

parse_price_from_jsonld(soup) ==
    JsonldTags(soup,
               SelectSeq(Elements(soup), LAMBDA n : /\ soup[n].tag = "script"
                                         /\ Attr(soup[n], "type") = Some("application/ld+json")),
               1)

----------------------------------------------------------------------------
(* parse_price_from_meta *)

metas == << <<"property", "product:price:amount">>,
            <<"itemprop", "price">>,
            <<"name", "twitter:data1">> >>

\* soup.find("meta", attrs={name: value}): the first such element, or None
FindMeta(soup, name, value) ==
    FirstOf(SelectSeq(Elements(soup), LAMBDA n : /\ soup[n].tag = "meta"
                                                 /\ Attr(soup[n], name) = Some(value)))

RECURSIVE MetaFrom(_, _)

\* variant: the loop ends at the first tag with content, matched or not
MetaMatch_Stops(soup, i, m) ==
    IF m.matched THEN Found(MatchValue(m), JStr(USD)) ELSE NoResult

\* m = PRICE_REGEX.search(text); if m: return val, "USD"
MetaMatch(soup, i, m) ==
    IF m.matched THEN Found(MatchValue(m), JStr(USD)) ELSE MetaFrom(soup, i + 1)

\* if tag and tag.get("content"): ...
MetaTagOf(soup, i, tag) ==
    IF tag # None /\ AttrOrEmpty(soup[tag[1]], "content") # <<>>
    THEN MetaMatch(soup, i, PRICE_REGEX_search(AttrOrEmpty(soup[tag[1]], "content")))
    ELSE MetaFrom(soup, i + 1)

\* the loop over metas, from entry i on
MetaFrom(soup, i) ==
    IF i > Len(metas) THEN NoResult
    ELSE MetaTagOf(soup, i, FindMeta(soup, metas[i][1], metas[i][2]))

parse_price_from_meta(soup) == MetaFrom(soup, 1)

----------------------------------------------------------------------------
(* _nearby_text, _candidate_score, smart_find_price *)

NEARBY_LIMIT_NODES == 3

NEARBY_MAX_CHARS == 1000

\* the lower-cased texts of up to k ancestors of cur, nearest first
RECURSIVE AncestorTexts(_, _, _)
AncestorTexts(soup, cur, k) ==
    IF k = 0 \/ cur = 0 THEN <<>>
    ELSE <<Lower(GetText(soup, soup[cur].parent))>>
         \o AncestorTexts(soup, soup[cur].parent, k - 1)

nearby_text(soup, el) ==
    Truncate(JoinSpace(AncestorTexts(soup, el, NEARBY_LIMIT_NODES)), NEARBY_MAX_CHARS)

NEG_WORDS == { <<"s", "a", "v", "e">>, <<"s", "a", "v", "i", "n", "g">>,
               <<"w", "a", "s">>, <<"s", "t", "r", "i", "k", "e">>,
               <<"s", "t", "r", "i", "k", "e", "t", "h", "r", "o", "u", "g", "h">>,
               <<"c", "o", "u", "p", "o", "n">>,
               <<"p", "e", "r", " ", "m", "o", "n", "t", "h">>,
               <<"m", "s", "r", "p">>, <<"l", "i", "s", "t">>,
               <<"d", "i", "s", "c", "o", "u", "n", "t">> }

POS_NEAR == { <<"f", "i", "n", "a", "l">>, <<"c", "u", "r", "r", "e", "n", "t">>,
              <<"y", "o", "u", "r", " ", "p", "r", "i", "c", "e">>,
              <<"o", "u", "r", " ", "p", "r", "i", "c", "e">>,
              <<"a", "d", "d", " ", "t", "o", " ", "c", "a", "r", "t">>,
              <<"b", "u", "y">> }

CURRENT_WORDS == { <<"f", "i", "n", "a", "l">>, <<"c", "u", "r", "r", "e", "n", "t">>,
                   <<"s", "a", "l", "e">> }

PRICE_WORD == <<"p", "r", "i", "c", "e">>

\* el.get("class") or []
ClassList(el) == IF "class" \in DOMAIN el.attrs THEN el.attrs.class ELSE <<>>

\* " ".join(filter(None, [id, " ".join(classes)])).lower()
IdClass(el) ==
    Lower(JoinSpace(SelectSeq(<<AttrOrEmpty(el, "id"), JoinSpace(ClassList(el))>>,
                              LAMBDA x : x # <<>>)))

\* the score without the penalty for a negative word
ScoreOf_NegIgnored(id_class, low, near, price_val) ==
    (IF Contains(id_class, PRICE_WORD) THEN 3 ELSE 0)
    + (IF \E w \in CURRENT_WORDS : Contains(id_class, w) THEN 1 ELSE 0)
    + (IF \E w \in POS_NEAR : Contains(near, w) THEN 2 ELSE 0)
    - (IF price_val <= 0 THEN 5 ELSE 0)

\* the score with the bonus for a current word given under "price" only
ScoreOf_Nested(id_class, low, near, price_val) ==
    (IF Contains(id_class, PRICE_WORD)
     THEN 3 + (IF \E w \in CURRENT_WORDS : Contains(id_class, w) THEN 1 ELSE 0)
     ELSE 0)
    - (IF \E w \in NEG_WORDS : Contains(low, w) THEN 3 ELSE 0)
    + (IF \E w \in POS_NEAR : Contains(near, w) THEN 2 ELSE 0)
    - (IF price_val <= 0 THEN 5 ELSE 0)

\* the sum of the signals on the id+class string, the lower-cased text of
\* the candidate, the nearby text and the value
ScoreOf(id_class, low, near, price_val) ==
    (IF Contains(id_class, PRICE_WORD) THEN 3 ELSE 0)
    + (IF \E w \in CURRENT_WORDS : Contains(id_class, w) THEN 1 ELSE 0)
    - (IF \E w \in NEG_WORDS : Contains(low, w) THEN 3 ELSE 0)
    + (IF \E w \in POS_NEAR : Contains(near, w) THEN 2 ELSE 0)
    - (IF price_val <= 0 THEN 5 ELSE 0)

\* variant: the negative words looked up in the text as it is written
candidate_score_CaseSensitive(soup, el, price_val, raw_text) ==
    ScoreOf(IdClass(soup[el]), raw_text, nearby_text(soup, el), price_val)

candidate_score(soup, el, price_val, raw_text) ==
    ScoreOf(IdClass(soup[el]), Lower(raw_text), nearby_text(soup, el), price_val)

\* attribute value contains "price", case-insensitively ([name*=price i])
AttrHasPrice(el, value) == Contains(Lower(value), PRICE_WORD)

\* soup.select(sel) for the six HINT_SELECTORS, in the order of the list
HintMatches(soup) ==
    SelectSeq(Elements(soup), LAMBDA n : Attr(soup[n], "itemprop") = Some("price"))
    \o SelectSeq(Elements(soup), LAMBDA n : /\ soup[n].tag = "meta"
                                 /\ Attr(soup[n], "itemprop") = Some("price"))
    \o SelectSeq(Elements(soup), LAMBDA n : AttrHasPrice(soup[n], JoinSpace(ClassList(soup[n]))))
    \o SelectSeq(Elements(soup), LAMBDA n : AttrHasPrice(soup[n], AttrOrEmpty(soup[n], "id")))
    \o SelectSeq(Elements(soup), LAMBDA n : AttrHasPrice(soup[n], AttrOrEmpty(soup[n], "data-test")))
    \o SelectSeq(Elements(soup), LAMBDA n : AttrHasPrice(soup[n], AttrOrEmpty(soup[n], "data-qa")))

\* the parents of the text nodes that contain "$" or "USD", one entry for
\* each such text node, in document order, from element n on
RECURSIVE TextMatches(_, _)
TextMatches(soup, n) ==
    IF n > Len(soup) THEN <<>>
    ELSE [i \in 1..Len(SelectSeq(soup[n].texts,
                                 LAMBDA t : Contains(t, <<"$">>) \/ Contains(t, USD)))
            |-> n]
         \o TextMatches(soup, n + 1)

\* val = float(...); s = _candidate_score(el, val, raw)
Valued(soup, el, raw, val) ==
    Some([score |-> candidate_score(soup, el, val, raw), val |-> val, el |-> el])

\* m = PRICE_REGEX.search(raw); if not m: continue
Matched(soup, el, raw, m) ==
    IF m.matched THEN Valued(soup, el, raw, MatchValue(m)) ELSE None

\* raw = _text(el)
TextOf(soup, el, raw) == Matched(soup, el, raw, PRICE_REGEX_search(raw))

\* the candidate that element el makes: None when its text holds no token
Candidate(soup, el) == TextOf(soup, el, ElText(soup, el))

\* the running best replaced only by a strictly higher score
Better_FirstWins(best, cand) ==
    IF cand = None THEN best
    ELSE IF best = None \/ cand[1].score > best[1].score THEN cand
    ELSE best

\* the running best after the candidate cand
Better(best, cand) ==
    IF cand = None THEN best
    ELSE IF \/ best = None
            \/ cand[1].score > best[1].score
            \/ (cand[1].score = best[1].score /\ cand[1].val <= best[1].val)
    THEN cand
    ELSE best

\* the loop over the collected nodes: best is None or the running best,
\* seen the elements met so far
RECURSIVE ScanNodes(_, _, _, _)
ScanNodes(soup, nodes, seen, best) ==
    IF nodes = <<>> THEN best
    ELSE ScanNodes(soup, Tail(nodes), seen \cup {Head(nodes)},
                   IF Head(nodes) \in seen THEN best
                   ELSE Better(best, Candidate(soup, Head(nodes))))

\* variant: no element is skipped
Visited_All(nodes, seen) == nodes

\* the elements of the loop that get past `if id(el) in seen: continue`, one
\* entry for each time
RECURSIVE Visited(_, _)
Visited(nodes, seen) ==
    IF nodes = <<>> THEN <<>>
    ELSE (IF Head(nodes) \in seen THEN <<>> ELSE <<Head(nodes)>>)
         \o Visited(Tail(nodes), seen \cup {Head(nodes)})

\* if best: return best[1], "USD"
BestValue(best) == IF best # None THEN Found(best[1].val, JStr(USD)) ELSE NoResult

\* best[0], the score, returned in place of best[1], the value
BestScore(best) == IF best # None THEN Found(best[1].score, JStr(USD)) ELSE NoResult

smart_find_price_ReturnsScore(soup) ==
    BestScore(ScanNodes(soup, HintMatches(soup) \o TextMatches(soup, 1), {}, None))

smart_find_price(soup) ==
    BestValue(ScanNodes(soup, HintMatches(soup) \o TextMatches(soup, 1), {}, None))

----------------------------------------------------------------------------
(* The documents the fetch collaborators may deliver *)

\* number of characters by which the long title exceeds TITLE_MAX
TitleExcess == 1

Repeat(c, n) == [i \in 1..n |-> c]

\* the title element: None when absent, else its text
Titles ==
    { None,
      Some(<<>>),
      Some(<<" ">>),
      Some(<<" ", "T", " ", "x", " ">>),
      Some(<<" ">> \o Repeat("A", TITLE_MAX + TitleExcess)),
      Some(<<"O", "n", "l", "y", " ", "$", "5">>) }

Offer(price, currency) == JObj([price |-> price, priceCurrency |-> currency])

Product(offers) == JObj([name |-> JStr(<<"W">>), offers |-> offers])

\* the outcomes of json.loads on the ld+json script blocks of a document
ScriptSets ==
    { <<>>,
      <<Malformed, Loaded(JList(<<JObj([name |-> JStr(<<"W">>)]),
                                  Product(JObj([price |-> JStr(<<"n", "/", "a">>)]))>>))>>,
      <<Loaded(Product(JList(<<Offer(JStr(<<"4", "9", ".", "9", "9">>), JStr(<<"E", "U", "R">>)),
                               Offer(JStr(<<"5", "9", ".", "9", "9">>), JStr(USD))>>)))>>,
      <<Loaded(Product(JObj([price |-> JStr(<<"1", ",", "2", "9", "9", ".", "9", "9">>)])))>>,
      <<Loaded(JList(<<JNum(100)>>))>>,
      <<Loaded(Product(JStr(<<"I", "n", "S", "t", "o", "c", "k">>)))>>,
      <<Loaded(Product(Offer(JNum(0), JNull)))>>,
      <<Loaded(Product(Offer(JStr(<<"-", "5", ".", "0", "0">>), JStr(<<"E", "u", "r", "o">>))))>> }

MetaTag(name, value, content) ==
    [tag |-> "meta", name |-> name, value |-> value, content |-> content]

\* the meta elements of a document
MetaSets ==
    { <<>>,
      <<MetaTag("property", "product:price:amount", <<"1", "4", "9", ".", "9", "9">>)>>,
      <<MetaTag("property", "product:price:amount", <<>>),
        MetaTag("itemprop", "price", <<"n", "/", "a">>)>>,
      <<MetaTag("name", "twitter:data1", <<"$", "0">>)>> }

\* an element of the body: up is 0 for a child of <body>, else the position
\* in the body of its parent
El(tag, up, attrs, texts) == [tag |-> tag, up |-> up, attrs |-> attrs, texts |-> texts]

Custom == <<"c", "u", "s", "t", "o", "m">>

Bodies ==
    { <<El("p", 0, <<>>, << <<"A", "b", "o", "u", "t", " ", "u", "s">> >>)>>,
      <<El("div", 0, [class |-> <<PRICE_WORD>>], << <<"$", "1", "0", "0", ".", "0", "0">> >>),
        El("span", 1, [id |-> Custom], << <<"$", "7", "9", ".", "9", "9">> >>)>>,
      <<El("div", 0, [id |-> Custom], << <<"s", "o", "l", "d", " ", "o", "u", "t">> >>),
        El("span", 0, [id |-> Custom], << <<" ", "$", "7", "9", ".", "9", "9", "\n">> >>)>>,
      <<El("span", 0, [class |-> <<PRICE_WORD>>, id |-> Custom], << <<"$", "0">> >>)>>,
      <<El("div", 0, [class |-> << <<"w", "a", "s", "-", "p", "r", "i", "c", "e">> >>],
           << <<"W", "a", "s", " ", "$", "1", "9", "9", ".", "9", "9">> >>),
        El("div", 0, [class |-> << <<"c", "u", "r", "r", "e", "n", "t", "-", "p", "r", "i", "c", "e">>,
                                   <<"f", "i", "n", "a", "l", "-", "p", "r", "i", "c", "e">> >>],
           << <<"N", "o", "w", " ", "$", "1", "4", "9", ".", "9", "9">> >>)>> }

\* the document <html><head> title, metas </head><body> scripts, body </body></html>
Doc(title, scripts, metaTags, body) ==
    LET head    == <<Node("html", 0, <<>>, <<>>), Node("head", 1, <<>>, <<>>)>>
                   \o (IF title = None THEN <<>>
                       ELSE <<Node("title", 2, <<>>,
                                   IF title[1] = <<>> THEN <<>> ELSE <<title[1]>>)>>)
                   \o [i \in 1..Len(metaTags) |->
                         Node("meta", 2,
                              IF metaTags[i].name = "property"
                              THEN [property |-> metaTags[i].value, content |-> metaTags[i].content]
                              ELSE IF metaTags[i].name = "itemprop"
                              THEN [itemprop |-> metaTags[i].value, content |-> metaTags[i].content]
                              ELSE [name |-> metaTags[i].value, content |-> metaTags[i].content],
                              <<>>)]
        bodyIdx == Len(head) + 1
        base    == bodyIdx + Len(scripts)
    IN  head
        \o <<Node("body", 1, <<>>, <<>>)>>
        \o [i \in 1..Len(scripts) |-> ScriptNode(bodyIdx, scripts[i])]
        \o [i \in 1..Len(body) |->
              Node(body[i].tag,
                   IF body[i].up = 0 THEN bodyIdx ELSE base + body[i].up,
                   body[i].attrs, body[i].texts)]

\* the documents fetch_html may deliver
Docs == {Doc(t, s, m, b) : t \in Titles, s \in ScriptSets, m \in MetaSets, b \in Bodies}

\* the title element of a rendered document
RenderedTitles == { None, Some(<<"R">>) }

\* the documents fetch_html_js may deliver
RenderedDocs ==
    {Doc(t, s, m, b) : t \in RenderedTitles, s \in ScriptSets, m \in MetaSets, b \in Bodies}

\* the selector argument: None, "", "#custom", or a selector that
\* soupsieve rejects
Selectors == { [k |-> "none"], [k |-> "empty"], [k |-> "id", id |-> Custom],
               [k |-> "malformed"] }

----------------------------------------------------------------------------
(* get_price *)

\* `if selector:`
SelectorGiven(selector) == selector.k \notin {"none", "empty"}

\* soup.select_one(selector): None when nothing matches or when it raises
\* (the exception is suppressed by the caller)
SelectOne(soup, selector) ==
    IF selector.k = "id"
    THEN FirstOf(SelectSeq(Elements(soup),
                           LAMBDA n : Attr(soup[n], "id") = Some(selector.id)))
    ELSE None

\* the selector attempt on a document
\* m = PRICE_REGEX.search(_text(sel)); if m: the value and "USD"
SelectorMatch(m) == IF m.matched THEN Found(MatchValue(m), JStr(USD)) ELSE NoResult

\* sel = soup.select_one(selector); if sel: ...
SelectedOf(soup, sel) ==
    IF sel # None THEN SelectorMatch(PRICE_REGEX_search(ElText(soup, sel[1])))
    ELSE NoResult

\* the selector attempt on a document
SelectorAttempt(soup, selector) == SelectedOf(soup, SelectOne(soup, selector))

VARIABLES
    pc,               \* position of the call in get_price
    selector,         \* the selector argument
    use_js_fallback,  \* settings.use_js_fallback
    soup,             \* the parsed raw document, <<>> before the fetch
    title,            \* the local variable title
    soup_js,          \* the parsed rendered document, <<>> before the fetch
    phase,            \* "raw" on the first pass, "js" inside the fallback
    result,           \* None, or the triple the call returned
    source,           \* the strategy whose return statement ended the call
    trace             \* the calls made so far, in order

\* the state of the other specifications of this module: the pattern applied
\* to a text, one strategy applied to a document, and several calls at once
VARIABLES
    token,            \* the parts the text is written from
    text,             \* the text PRICE_REGEX is applied to
    match,            \* None, or the match PRICE_REGEX.search(text) gave
    page,             \* the document a strategy is applied to
    order,            \* the collected candidates, in the order of the scan
    ret,              \* None, or the strategy applied and what it returned
    web,              \* what each url serves: a raw and a rendered document
    calls             \* the get_price calls in progress, by call

VARIABLES
    limiter,          \* the fields of the RateLimiter instance
    clock,            \* what time.time() returns
    answers,          \* the times of the calls of one identifier answered True
    evicted           \* what the last is_allowed call evicted

VARIABLES
    db,               \* the committed rows: trackers and price_history
    cycle,            \* the polling cycle in progress or last run
    sent,             \* the notifications handed to send_email / send_sms
    request           \* the last operation handled and how it went

vars == <<pc, selector, use_js_fallback, soup, title, soup_js, phase, result,
          source, trace, token, text, match, page, order, ret, web, calls,
          limiter, clock, answers, evicted, db, cycle, sent, request>>

limiterVars == <<limiter, clock, answers, evicted>>

trackerVars == <<db, cycle, sent, request>>

serviceVars == <<limiterVars, trackerVars>>

LimiterIdle == limiter = <<>> /\ clock = 0 /\ answers = <<>> /\ evicted = <<>>

TrackerIdle == db = <<>> /\ cycle = <<>> /\ sent = <<>> /\ request = <<>>

ServiceIdle == LimiterIdle /\ TrackerIdle

\* the variables of one get_price call
callVars == <<pc, selector, use_js_fallback, soup, title, soup_js, phase, result,
              source, trace>>

patternVars == <<token, text, match>>

strategyVars == <<page, order, ret>>

callsVars == <<web, calls>>

PatternIdle == token = <<>> /\ text = <<>> /\ match = None

StrategyIdle == page = <<>> /\ order = <<>> /\ ret = None

CallsIdle == web = <<>> /\ calls = <<>>

Event(op, doc) == [op |-> op, doc |-> doc]

\* the document of the current pass
CurSoup == IF phase = "raw" THEN soup ELSE soup_js

Init ==
    /\ pc = "start"
    /\ selector \in Selectors
    /\ use_js_fallback \in BOOLEAN
    /\ soup = <<>>
    /\ title = None
    /\ soup_js = <<>>
    /\ phase = "raw"
    /\ result = None
    /\ source = "none"
    /\ trace = <<>>
    /\ PatternIdle
    /\ StrategyIdle
    /\ CallsIdle
    /\ ServiceIdle

\* variant: the title is taken from the document of the current pass
Return_TitleOfPass(price, currency, src) ==
    /\ pc' = "returned"
    /\ result' = Some([price |-> price, currency |-> currency,
                       title |-> extract_title(CurSoup)])
    /\ source' = src

\* return price, currency, title
Return(price, currency, src) ==
    /\ pc' = "returned"
    /\ result' = Some([price |-> price, currency |-> currency, title |-> title])
    /\ source' = src

\* return r[0], r[1], title
ReturnFound(r, src) == Return(Some(r.value[1].price), r.value[1].currency, src)

\* return None, "USD", title
ReturnNothing == Return(None, JStr(USD), "none")

\* an exception leaves get_price
Propagate ==
    /\ pc' = "raised"
    /\ UNCHANGED <<result, source>>

\* html = fetch_html(url) returns; soup and title are set
fetch_html_returns ==
    /\ pc = "start"
    /\ \E d \in Docs :
         /\ soup' = d
         /\ title' = extract_title(d)
    /\ pc' = "selector"
    /\ trace' = trace \o <<Event("fetch_html", "raw"), Event("extract_title", "raw")>>
    /\ UNCHANGED <<selector, use_js_fallback, soup_js, phase, result, source>>
    /\ UNCHANGED <<patternVars, strategyVars, callsVars, serviceVars>>

\* a failed raw fetch that goes on to the fallback when it is enabled
fetch_html_raises_TriesFallback ==
    /\ pc = "start"
    /\ trace' = Append(trace, Event("fetch_html", "raw"))
    /\ IF use_js_fallback
       THEN pc' = "js_fetch" /\ UNCHANGED <<result, source>>
       ELSE Propagate
    /\ UNCHANGED <<selector, use_js_fallback, soup, title, soup_js, phase>>
    /\ UNCHANGED <<patternVars, strategyVars, callsVars, serviceVars>>

\* html = fetch_html(url) raises
fetch_html_raises ==
    /\ pc = "start"
    /\ trace' = Append(trace, Event("fetch_html", "raw"))
    /\ Propagate
    /\ UNCHANGED <<selector, use_js_fallback, soup, title, soup_js, phase>>
    /\ UNCHANGED <<patternVars, strategyVars, callsVars, serviceVars>>

\* variant: a selector that gives no price ends the call with no price
SelectorOutcome_GivesUp(r) ==
    IF r # NoResult THEN ReturnFound(r, "selector") ELSE ReturnNothing

\* after the selector attempt: its result returned, or the chain goes on
SelectorOutcome(r) ==
    IF r # NoResult
    THEN ReturnFound(r, "selector")
    ELSE pc' = "jsonld" /\ UNCHANGED <<result, source>>

\* the selector consulted only when the structured data gives nothing
TrySelector_StructuredFirst ==
    /\ pc = "selector"
    /\ IF SelectorGiven(selector) /\ parse_price_from_jsonld(CurSoup).value = None
       THEN /\ trace' = Append(trace, Event("selector", phase))
            /\ SelectorOutcome(SelectorAttempt(CurSoup, selector))
       ELSE /\ pc' = "jsonld"
            /\ UNCHANGED <<trace, result, source>>
    /\ UNCHANGED <<selector, use_js_fallback, soup, title, soup_js, phase>>
    /\ UNCHANGED <<patternVars, strategyVars, callsVars, serviceVars>>

\* if selector: with suppress(Exception): ...
TrySelector ==
    /\ pc = "selector"
    /\ IF SelectorGiven(selector)
       THEN /\ trace' = Append(trace, Event("selector", phase))
            /\ SelectorOutcome(SelectorAttempt(CurSoup, selector))
       ELSE /\ pc' = "jsonld"
            /\ UNCHANGED <<trace, result, source>>
    /\ UNCHANGED <<selector, use_js_fallback, soup, title, soup_js, phase>>
    /\ UNCHANGED <<patternVars, strategyVars, callsVars, serviceVars>>

\* after parse_price_from_jsonld: an exception propagates on the first pass
\* and is caught by the except clause of the fallback
JsonldOutcome(r) ==
    IF r.raised
    THEN IF phase = "raw" THEN Propagate ELSE ReturnNothing
    ELSE IF r # NoResult
    THEN ReturnFound(r, "jsonld")
    ELSE pc' = "meta" /\ UNCHANGED <<result, source>>

\* r = parse_price_from_jsonld(soup)
TryJsonld ==
    /\ pc = "jsonld"
    /\ trace' = Append(trace, Event("jsonld", phase))
    /\ JsonldOutcome(parse_price_from_jsonld(CurSoup))
    /\ UNCHANGED <<selector, use_js_fallback, soup, title, soup_js, phase>>
    /\ UNCHANGED <<patternVars, strategyVars, callsVars, serviceVars>>

\* after parse_price_from_meta
MetaOutcome(r) ==
    IF r # NoResult
    THEN ReturnFound(r, "meta")
    ELSE pc' = "smart" /\ UNCHANGED <<result, source>>

\* r = parse_price_from_meta(soup)
TryMeta ==
    /\ pc = "meta"
    /\ trace' = Append(trace, Event("meta", phase))
    /\ MetaOutcome(parse_price_from_meta(CurSoup))
    /\ UNCHANGED <<selector, use_js_fallback, soup, title, soup_js, phase>>
    /\ UNCHANGED <<patternVars, strategyVars, callsVars, serviceVars>>

\* after smart_find_price, with enter telling whether the fallback is entered
\* when the first pass found nothing
SmartOutcome(r, enter) ==
    IF r # NoResult
    THEN ReturnFound(r, "smart")
    ELSE IF phase = "raw" /\ enter
    THEN pc' = "js_fetch" /\ UNCHANGED <<result, source>>
    ELSE ReturnNothing

\* the fallback entered without looking at settings.use_js_fallback
TrySmart_IgnoresFlag ==
    /\ pc = "smart"
    /\ trace' = Append(trace, Event("smart", phase))
    /\ SmartOutcome(smart_find_price(CurSoup), TRUE)
    /\ UNCHANGED <<selector, use_js_fallback, soup, title, soup_js, phase>>
    /\ UNCHANGED <<patternVars, strategyVars, callsVars, serviceVars>>

\* r = smart_find_price(soup); without a result the first pass goes on to
\* `if settings.use_js_fallback:` and the fallback to the final return
TrySmart ==
    /\ pc = "smart"
    /\ trace' = Append(trace, Event("smart", phase))
    /\ SmartOutcome(smart_find_price(CurSoup), use_js_fallback)
    /\ UNCHANGED <<selector, use_js_fallback, soup, title, soup_js, phase>>
    /\ UNCHANGED <<patternVars, strategyVars, callsVars, serviceVars>>

\* html_js = fetch_html_js(url) returns
fetch_html_js_returns ==
    /\ pc = "js_fetch"
    /\ soup_js' \in RenderedDocs
    /\ phase' = "js"
    /\ pc' = "selector"
    /\ trace' = Append(trace, Event("fetch_html_js", "js"))
    /\ UNCHANGED <<selector, use_js_fallback, soup, title, result, source>>
    /\ UNCHANGED <<patternVars, strategyVars, callsVars, serviceVars>>

\* a failed rendered fetch without the except clause
fetch_html_js_raises_Propagates ==
    /\ pc = "js_fetch"
    /\ trace' = Append(trace, Event("fetch_html_js", "js"))
    /\ Propagate
    /\ UNCHANGED <<selector, use_js_fallback, soup, title, soup_js, phase>>
    /\ UNCHANGED <<patternVars, strategyVars, callsVars, serviceVars>>

\* html_js = fetch_html_js(url) raises: except Exception
fetch_html_js_raises ==
    /\ pc = "js_fetch"
    /\ trace' = Append(trace, Event("fetch_html_js", "js"))
    /\ ReturnNothing
    /\ UNCHANGED <<selector, use_js_fallback, soup, title, soup_js, phase>>
    /\ UNCHANGED <<patternVars, strategyVars, callsVars, serviceVars>>

Next ==
    \/ fetch_html_returns
    \/ fetch_html_raises
    \/ TrySelector
    \/ TryJsonld
    \/ TryMeta
    \/ TrySmart
    \/ fetch_html_js_returns
    \/ fetch_html_js_raises

Spec == Init /\ [][Next]_vars

----------------------------------------------------------------------------
(* Properties of get_price *)

\* the call has ended, by a return or by an exception
Ended == pc \in {"returned", "raised"}

\* the positions of trace at which op was called on doc
Calls(op, doc) == {i \in 1..Len(trace) : trace[i] = Event(op, doc)}

Strategies == {"selector", "jsonld", "meta", "smart"}

\* the first element, in document order, that "#custom" selects
FirstSelected(doc) ==
    IF \E n \in 1..Len(doc) : "id" \in DOMAIN doc[n].attrs /\ doc[n].attrs.id = selector.id
    THEN Some(CHOOSE n \in 1..Len(doc) :
                 /\ "id" \in DOMAIN doc[n].attrs /\ doc[n].attrs.id = selector.id
                 /\ \A h \in 1..(n - 1) :
                      ~("id" \in DOMAIN doc[h].attrs /\ doc[h].attrs.id = selector.id))
    ELSE None

\* the price token of the first element the supplied selector matches:
\* None when no selector is supplied, it is malformed, it matches nothing,
\* or the element holds no token
SelectedToken(doc) ==
    IF selector.k = "id" /\ FirstSelected(doc) # None
       /\ PRICE_REGEX_search(ElText(doc, FirstSelected(doc)[1])).matched
    THEN Some(MatchValue(PRICE_REGEX_search(ElText(doc, FirstSelected(doc)[1]))))
    ELSE None

\* the text of the title element trimmed and cut to 200 characters, None
\* when the element is missing or empty
ExpectedTitle(doc) ==
    IF \E n \in 1..Len(doc) : doc[n].tag = "title" /\ doc[n].texts # <<>>
    THEN LET n == CHOOSE n \in 1..Len(doc) : doc[n].tag = "title"
             t == doc[n].texts[1]
             inked == {h \in 1..Len(t) : t[h] \notin Whitespace}
             first == CHOOSE h \in inked : \A g \in 1..(h - 1) : t[g] \in Whitespace
             last  == CHOOSE h \in inked : \A g \in (h + 1)..Len(t) : t[g] \in Whitespace
         IN  IF inked = {} THEN Some(<<>>)
             ELSE Some([h \in 1..Min(last - first + 1, 200) |-> t[first + h - 1]])
    ELSE None

\* what the chain structured data, meta tags, heuristic scan gives on a
\* document: the first result there is, None when there is none
ChainValue(doc) ==
    LET j == parse_price_from_jsonld(doc).value
        m == parse_price_from_meta(doc).value
    IN  IF j # None THEN j
        ELSE IF m # None THEN m
        ELSE smart_find_price(doc).value

(* C1: when the first element matched by the supplied selector holds a     *)
(* price token, the call returns that token's value with currency "USD"    *)
(* straight after the selector attempt on the raw document, whatever the   *)
(* structured data, the meta tags and the heuristic scan would give.       *)
C1_SelectorWins ==
    (soup # <<>> /\ SelectedToken(soup) # None /\ pc # "selector")
    => /\ pc = "returned"
       /\ source = "selector"
       /\ result[1].price = SelectedToken(soup)
       /\ result[1].currency = JStr(USD)
       /\ Calls("jsonld", "raw") \cup Calls("meta", "raw") \cup Calls("smart", "raw") = {}

\* the selector's 79.99 is returned although the structured data says 49.99
\* and the heuristic scan would pick 100.00
C1_Witness ==
    /\ pc = "returned"
    /\ source = "selector"
    /\ result[1].price = Some(7999)
    /\ parse_price_from_jsonld(soup).value # None
    /\ parse_price_from_jsonld(soup).value[1].price = 4999
    /\ smart_find_price(soup).value[1].price = 10000

(* C2: when the selector attempt gives no result, get_price returns the    *)
(* structured-data result if there is one, otherwise the meta-tag result   *)
(* if there is one, otherwise the heuristic-scan result; a strategy runs   *)
(* only after every earlier one ran without a result.                      *)
C2_FirstResultReturned ==
    /\ (Ended /\ soup # <<>> /\ SelectedToken(soup) = None /\ ChainValue(soup) # None)
       => /\ pc = "returned"
          /\ result[1].price = Some(ChainValue(soup)[1].price)
          /\ result[1].currency = ChainValue(soup)[1].currency
    /\ \A i \in Calls("meta", "raw") :
         Calls("jsonld", "raw") = {i - 1} /\ parse_price_from_jsonld(soup).value = None
    /\ \A i \in Calls("smart", "raw") :
         Calls("meta", "raw") = {i - 1} /\ parse_price_from_meta(soup).value = None

(* C3: an exception raised inside a strategy never escapes get_price: the  *)
(* call raises only when the raw fetch raised.                             *)
C3_StrategyExceptionsAbsorbed == pc = "raised" => soup = <<>>

(* C4: when the raw fetch raises, get_price raises: no triple is returned, *)
(* no strategy runs and the rendered fetch is never invoked, whatever the  *)
(* fallback flag.                                                          *)
C4_RawFetchFailurePropagates ==
    (pc # "start" /\ soup = <<>>)
    => /\ pc = "raised"
       /\ result = None
       /\ trace = <<Event("fetch_html", "raw")>>
       /\ soup_js = <<>>

\* the raw fetch has failed with the fallback enabled
C4_Witness == pc = "raised" /\ soup = <<>> /\ use_js_fallback

(* C5: when the rendered fetch raises, get_price returns price none,       *)
(* currency "USD" and the title of the raw document.                       *)
C5_RenderFailureDegrades ==
    (Calls("fetch_html_js", "js") # {} /\ soup_js = <<>>)
    => /\ pc = "returned"
       /\ result = Some([price |-> None, currency |-> JStr(USD),
                         title |-> ExpectedTitle(soup)])

\* the rendered fetch has failed on a page that has a title
C5_Witness ==
    /\ Calls("fetch_html_js", "js") # {}
    /\ soup_js = <<>>
    /\ pc = "returned"
    /\ result[1].title # None

(* C6: the raw fetch is the first call and the only raw fetch; the         *)
(* rendered fetch happens at most once, only with the fallback flag on and *)
(* only after the selector attempt (when a selector is given), the         *)
(* structured data, the meta tags and the heuristic scan have all run on   *)
(* the raw document without a result; nothing is fetched after it and the  *)
(* raw document is not consulted again.                                    *)
C6_FetchDiscipline ==
    /\ pc # "start" => Calls("fetch_html", "raw") = {1}
    /\ Cardinality(Calls("fetch_html_js", "js")) <= 1
    /\ \A i \in Calls("fetch_html_js", "js") :
         /\ use_js_fallback
         /\ SelectorGiven(selector) => Calls("selector", "raw") = {i - 4}
         /\ Calls("jsonld", "raw") = {i - 3}
         /\ Calls("meta", "raw") = {i - 2}
         /\ Calls("smart", "raw") = {i - 1}
         /\ SelectedToken(soup) = None
         /\ ChainValue(soup) = None
         /\ ~parse_price_from_jsonld(soup).raised
         /\ \A h \in (i + 1)..Len(trace) :
              trace[h].doc = "js" /\ trace[h].op \in Strategies
    /\ \A op \in Strategies : Cardinality(Calls(op, "js")) <= 1

\* a call that went through both passes and ended with the heuristic scan
\* of the rendered document
C6_Witness ==
    /\ pc = "returned"
    /\ phase = "js"
    /\ source = "smart"
    /\ SelectorGiven(selector)
    /\ Len(trace) = 11

(* C7: when no strategy finds a price on the raw document (nor on the      *)
(* rendered one when the fallback is enabled), get_price ends without      *)
(* raising and returns price none, currency "USD" and the title.           *)
C7_NoPriceIsNotAnError ==
    (/\ Ended
     /\ soup # <<>>
     /\ SelectedToken(soup) = None
     /\ ChainValue(soup) = None
     /\ soup_js # <<>> => (SelectedToken(soup_js) = None /\ ChainValue(soup_js) = None))
    => /\ pc = "returned"
       /\ result = Some([price |-> None, currency |-> JStr(USD),
                         title |-> ExpectedTitle(soup)])

(* C8 as stated: a returned price is none or strictly greater than zero.   *)
C8_PricePositive ==
    pc = "returned" => (result[1].price = None \/ result[1].price[1] > 0)

(* C8 amended: a price returned by the selector attempt, the meta tags or  *)
(* the heuristic scan is zero or more; only the structured data can        *)
(* return a negative price.                                                *)
C8_PriceNotNegative ==
    pc = "returned"
    => \/ result[1].price = None /\ source = "none"
       \/ result[1].price # None /\ source = "jsonld"
       \/ result[1].price # None /\ source \in {"selector", "meta", "smart"}
          /\ result[1].price[1] >= 0

\* the heuristic scan has returned the price 0 of a "$0" badge
C8_Witness ==
    /\ pc = "returned"
    /\ source = "smart"
    /\ result[1].price = Some(0)

(* C9: the returned currency is a three-letter code, and it is "USD"       *)
(* unless the structured data produced the price.                          *)
C9_CurrencyThreeLetters ==
    pc = "returned"
    => /\ result[1].currency.k = "str"
       /\ Len(result[1].currency.s) = 3
       /\ \A i \in 1..3 : result[1].currency.s[i] \in Letters
       /\ source # "jsonld" => result[1].currency = JStr(USD)

(* C10: the title is extracted once, and the returned title is the text of *)
(* the raw document's title element, trimmed and then cut to 200           *)
(* characters, or none when the element is missing or empty, whichever     *)
(* strategy ended the call and on whichever document.                      *)
C10_TitleOnceAndSame ==
    /\ soup # <<>> => (Calls("extract_title", "raw") = {2} /\ title = ExpectedTitle(soup))
    /\ Calls("extract_title", "js") = {}
    /\ pc = "returned" => result[1].title = ExpectedTitle(soup)

\* a title of 201 characters after trimming is returned cut to 200 by a
\* call that found its price on the rendered document
C10_Witness ==
    /\ pc = "returned"
    /\ phase = "js"
    /\ source = "meta"
    /\ result[1].title = Some(Repeat("A", TITLE_MAX))
    /\ ExpectedTitle(soup_js) # result[1].title

----------------------------------------------------------------------------
(* Several get_price calls at once *)

\* the variables of one get_price call, at rest while another specification
\* runs
GetPriceIdle ==
    /\ pc = "idle"
    /\ selector = [k |-> "none"]
    /\ soup = <<>>
    /\ title = None
    /\ soup_js = <<>>
    /\ phase = "raw"
    /\ result = None
    /\ source = "none"
    /\ trace = <<>>

\* number of get_price calls in progress at once
MaxCalls == 2

CallIds == 1..MaxCalls

\* a fetch that raises
Unreachable == <<>>

Site(raw, rendered) == [raw |-> raw, rendered |-> rendered]

AboutBody == <<El("p", 0, <<>>, << <<"A", "b", "o", "u", "t", " ", "u", "s">> >>)>>

NestedBody ==
    <<El("div", 0, [class |-> <<PRICE_WORD>>], << <<"$", "1", "0", "0", ".", "0", "0">> >>),
      El("span", 1, [id |-> Custom], << <<"$", "7", "9", ".", "9", "9">> >>)>>

EurOffer == Loaded(Product(Offer(JStr(<<"4", "9", ".", "9", "9">>), JStr(<<"E", "U", "R">>))))

InStockOffers == Loaded(Product(JStr(<<"I", "n", "S", "t", "o", "c", "k">>)))

\* what the urls serve: a page whose fetch fails, a page with structured
\* data, a page whose price is only in the rendered document, a page priced
\* by the heuristic scan, and a page whose structured data has an unexpected
\* shape
Web ==
    << Site(Unreachable, Unreachable),
       Site(Doc(Some(<<"T">>), <<EurOffer>>, <<>>, NestedBody), Unreachable),
       Site(Doc(None, <<>>, <<>>, AboutBody), Doc(Some(<<"R">>), <<>>, <<>>, NestedBody)),
       Site(Doc(Some(<<"T">>), <<>>, <<>>, NestedBody), Unreachable),
       Site(Doc(None, <<InStockOffers>>, <<>>, NestedBody), Unreachable) >>

Urls == 1..Len(Web)

\* the arguments of the calls: every url without a selector, and the page
\* with structured data with the selector "#custom" too
CallArgs ==
    {<<u, [k |-> "none"]>> : u \in Urls} \cup {<<2, [k |-> "id", id |-> Custom]>>}

\* the locals of a get_price(url, selector) call that has not started
NewCall(url, sel) ==
    [url |-> url, selector |-> sel, pc |-> "start", soup |-> <<>>, title |-> None,
     soup_js |-> <<>>, phase |-> "raw", seen |-> {}, result |-> None]

\* the document of the current pass of call c
CallSoup_Shared(c) ==
    IF \E j \in DOMAIN calls : calls[j].soup # <<>>
    THEN calls[CHOOSE j \in DOMAIN calls :
                 /\ calls[j].soup # <<>>
                 /\ \A h \in DOMAIN calls : calls[h].soup # <<>> => j <= h].soup
    ELSE c.soup

CallSoup(c) == IF c.phase = "raw" THEN c.soup ELSE c.soup_js

\* an exception leaves call c
CallRaise(c) == [c EXCEPT !.pc = "raised"]

\* return r[0], r[1], title
CallReturn(c, found) ==
    [c EXCEPT !.pc = "returned",
              !.result = Some([price |-> Some(found.value[1].price),
                               currency |-> found.value[1].currency,
                               title |-> c.title])]

\* return None, "USD", title
CallReturnNothing(c) ==
    [c EXCEPT !.pc = "returned",
              !.result = Some([price |-> None, currency |-> JStr(USD), title |-> c.title])]

CallGoto(c, next) == [c EXCEPT !.pc = next]

\* html = fetch_html(url); soup = BeautifulSoup(html); title = extract_title(soup)
CallFetched(c, site) ==
    IF site.raw = Unreachable THEN CallRaise(c)
    ELSE [c EXCEPT !.soup = site.raw, !.title = extract_title(site.raw), !.pc = "selector"]

\* after the selector attempt
CallAfterSelector(c, found) ==
    IF found # NoResult THEN CallReturn(c, found) ELSE CallGoto(c, "jsonld")

\* if selector: with suppress(Exception): ...
CallSelector(c) ==
    IF SelectorGiven(c.selector)
    THEN CallAfterSelector(c, SelectorAttempt(CallSoup(c), c.selector))
    ELSE CallGoto(c, "jsonld")

\* after parse_price_from_jsonld
CallAfterJsonld(c, found) ==
    IF found.raised
    THEN IF c.phase = "raw" THEN CallRaise(c) ELSE CallReturnNothing(c)
    ELSE IF found # NoResult THEN CallReturn(c, found)
    ELSE CallGoto(c, "meta")

CallJsonld(c) == CallAfterJsonld(c, parse_price_from_jsonld(CallSoup(c)))

\* after parse_price_from_meta
CallAfterMeta(c, found) ==
    IF found # NoResult THEN CallReturn(c, found) ELSE CallGoto(c, "smart")

CallMeta(c) == CallAfterMeta(c, parse_price_from_meta(CallSoup(c)))

\* after smart_find_price
CallAfterSmart(c, found, flag) ==
    IF found # NoResult THEN CallReturn(c, found)
    ELSE IF c.phase = "raw" /\ flag THEN CallGoto(c, "js_fetch")
    ELSE CallReturnNothing(c)

\* the candidates smart_find_price collects
Collected(d) == HintMatches(d) \o TextMatches(d, 1)

\* the elements in a list of elements
Range(seq) == {seq[i] : i \in 1..Len(seq)}

\* the scan of call c with its candidates cands, from the running set past
CallScanFrom(c, cands, past, flag) ==
    CallAfterSmart([c EXCEPT !.seen = past \cup Range(cands)],
                   BestValue(ScanNodes(CallSoup(c), cands, past, None)), flag)

\* a set of seen elements kept at module level: the scan starts from the
\* elements the other calls have seen
CallSmart_SeenKept(c, flag) ==
    CallScanFrom(c, Collected(CallSoup(c)),
                 UNION {calls[j].seen : j \in DOMAIN calls}, flag)

\* r = smart_find_price(soup): seen: Set[int] = set()
CallSmart(c, flag) == CallScanFrom(c, Collected(CallSoup(c)), {}, flag)

\* html_js = fetch_html_js(url), inside try/except Exception
CallFetchedJs(c, site) ==
    IF site.rendered = Unreachable THEN CallReturnNothing(c)
    ELSE [c EXCEPT !.soup_js = site.rendered, !.phase = "js", !.pc = "selector"]

CallEnded(c) == c.pc \in {"returned", "raised"}

\* the next step of call c
Advance(c, site, flag) ==
    CASE c.pc = "start" -> CallFetched(c, site)
      [] c.pc = "selector" -> CallSelector(c)
      [] c.pc = "jsonld" -> CallJsonld(c)
      [] c.pc = "meta" -> CallMeta(c)
      [] c.pc = "smart" -> CallSmart(c, flag)
      [] c.pc = "js_fetch" -> CallFetchedJs(c, site)

\* get_price run from c to its end with nothing else running
RECURSIVE RunAlone(_, _, _)
RunAlone(c, site, flag) ==
    IF CallEnded(c) THEN c ELSE RunAlone(Advance(c, site, flag), site, flag)

CallsInit ==
    /\ GetPriceIdle
    /\ use_js_fallback \in BOOLEAN
    /\ PatternIdle
    /\ StrategyIdle
    /\ ServiceIdle
    /\ web = Web
    /\ calls \in [CallIds -> {NewCall(a[1], a[2]) : a \in CallArgs}]

\* the other calls and everything else stay as they are
CallsFrame == UNCHANGED <<web, callVars, patternVars, strategyVars, serviceVars>>

calls_fetch_html(i) ==
    /\ calls[i].pc = "start"
    /\ calls' = [calls EXCEPT ![i] = CallFetched(calls[i], web[calls[i].url])]
    /\ CallsFrame

calls_selector(i) ==
    /\ calls[i].pc = "selector"
    /\ calls' = [calls EXCEPT ![i] = CallSelector(calls[i])]
    /\ CallsFrame

calls_jsonld(i) ==
    /\ calls[i].pc = "jsonld"
    /\ calls' = [calls EXCEPT ![i] = CallJsonld(calls[i])]
    /\ CallsFrame

calls_meta(i) ==
    /\ calls[i].pc = "meta"
    /\ calls' = [calls EXCEPT ![i] = CallMeta(calls[i])]
    /\ CallsFrame

calls_smart(i) ==
    /\ calls[i].pc = "smart"
    /\ calls' = [calls EXCEPT ![i] = CallSmart(calls[i], use_js_fallback)]
    /\ CallsFrame

calls_fetch_html_js(i) ==
    /\ calls[i].pc = "js_fetch"
    /\ calls' = [calls EXCEPT ![i] = CallFetchedJs(calls[i], web[calls[i].url])]
    /\ CallsFrame

CallsNext ==
    \/ \E i \in CallIds : calls_fetch_html(i)
    \/ \E i \in CallIds : calls_selector(i)
    \/ \E i \in CallIds : calls_jsonld(i)
    \/ \E i \in CallIds : calls_meta(i)
    \/ \E i \in CallIds : calls_smart(i)
    \/ \E i \in CallIds : calls_fetch_html_js(i)

CallsSpec == CallsInit /\ [][CallsNext]_vars

\* how call c ended: by a raise, or the triple it returned
Outcome(c) == [raised |-> c.pc = "raised", result |-> c.result]

(* C11: two get_price calls made with the same url and selector, on an     *)
(* unchanged web and flag, end with identical outcomes: the same triple,   *)
(* or both by the same raise.                                              *)
C11_RepeatedCallsAgree ==
    \A i, j \in DOMAIN calls :
        (/\ CallEnded(calls[i])
         /\ CallEnded(calls[j])
         /\ calls[i].url = calls[j].url
         /\ calls[i].selector = calls[j].selector)
        => Outcome(calls[i]) = Outcome(calls[j])

\* two calls on the page priced by the heuristic scan have both returned 100.00
C11_Witness ==
    /\ calls # <<>>
    /\ \A i \in DOMAIN calls :
         /\ calls[i].url = 4
         /\ calls[i].selector.k = "none"
         /\ calls[i].pc = "returned"
         /\ calls[i].result[1].price = Some(10000)
         /\ calls[i].seen # {}

(* C12: under every interleaving each call ends as it ends when run alone, *)
(* and no step changes what the urls serve or the fallback flag.           *)
C12_ConcurrentCallsIndependent ==
    /\ [](\A i \in DOMAIN calls :
            CallEnded(calls[i])
            => Outcome(calls[i])
               = Outcome(RunAlone(NewCall(calls[i].url, calls[i].selector),
                                  web[calls[i].url], use_js_fallback)))
    /\ [][web' = web /\ use_js_fallback' = use_js_fallback]_vars

\* two calls on different pages are both under way, and one has ended with
\* the price of its own page
C12_Witness ==
    /\ calls # <<>>
    /\ calls[1].url = 2
    /\ calls[1].pc = "returned"
    /\ calls[1].result[1].price = Some(4999)
    /\ calls[2].url = 3
    /\ calls[2].pc = "smart"
    /\ calls[2].phase = "js"

----------------------------------------------------------------------------
(* One strategy applied to a document *)

\* number of candidate blocks of a scanned page
MaxSlots == 2

\* a block <article><section><div>label<span class=...>txt</span></div>
\* </section></article>: the label is part of the nearby text of the span
\* and not of its own text
Slot(label, class, txt) == [label |-> label, class |-> class, txt |-> txt]

NoLabel == <<>>

NoClass == <<>>

WasLabel == <<"w", "a", "s">>

BuyLabel == <<"b", "u", "y", " ", "n", "o", "w">>

PriceClass == <<PRICE_WORD>>

CurrentPriceClass == <<PRICE_WORD, <<"c", "u", "r", "r", "e", "n", "t">> >>

SaleClass == << <<"s", "a", "l", "e">> >>

SlotKinds ==
    { Slot(NoLabel, PriceClass, <<"$", "7", "9", ".", "9", "9">>),
      Slot(NoLabel, SaleClass, <<"$", "8", "9", ".", "9", "9">>),
      Slot(NoLabel, PriceClass, <<"$", "9", "9", ".", "9", "9">>),
      Slot(NoLabel, CurrentPriceClass, <<"$", "0">>),
      Slot(NoLabel, NoClass, <<"w", "a", "s", " ", "$", "1", "9", ".", "9", "9">>),
      Slot(WasLabel, PriceClass, <<"$", "1", "9", ".", "9", "9">>),
      Slot(NoLabel, PriceClass, <<"W", "a", "s", " ", "$", "5", "9", ".", "9", "9">>),
      Slot(BuyLabel, PriceClass, <<"$", "1", "4", "9", ".", "9", "9">>),
      Slot(NoLabel, NoClass, <<"a", "b", "o", "u", "t">>),
      Slot(NoLabel, PriceClass, <<"s", "o", "l", "d", " ", "o", "u", "t">>),
      Slot(NoLabel, PriceClass, <<"$", "0">>) }

\* the four elements of block k of a body
SlotEls(k, s) ==
    << El("article", 0, <<>>, <<>>),
       El("section", 4 * (k - 1) + 1, <<>>, <<>>),
       El("div", 4 * (k - 1) + 2, <<>>, IF s.label = NoLabel THEN <<>> ELSE <<s.label>>),
       El("span", 4 * (k - 1) + 3,
          IF s.class = NoClass THEN <<>> ELSE [class |-> s.class], <<s.txt>>) >>

RECURSIVE SlotsBody(_, _)
SlotsBody(kinds, k) ==
    IF k > Len(kinds) THEN <<>> ELSE SlotEls(k, kinds[k]) \o SlotsBody(kinds, k + 1)

\* the pages of one to MaxSlots blocks
ScanPages ==
    { Doc(None, <<>>, <<>>, SlotsBody(kinds, 1)) :
        kinds \in UNION { [1..n -> SlotKinds] : n \in 1..MaxSlots } }

\* the orders in which the elements of a set may be collected
Orders(S) ==
    { f \in [1..Cardinality(S) -> S] : \A i, j \in 1..Cardinality(S) : f[i] = f[j] => i = j }

\* number of ld+json script blocks of a page
MaxBlocks == 2

\* the objects a structured-data block may hold: without offers, with an
\* offer whose price does not convert, with a priced offer, with a list of
\* offers whose first entry has no price, with a list of two priced offers,
\* with an offer whose price is null, with an empty list of offers, and two
\* values of an unexpected shape: a number in place of the object and a
\* string in place of the offer
JsonldItems_Single ==
    { JObj([name |-> JStr(<<"W">>)]),
      Product(JObj([price |-> JStr(<<"n", "/", "a">>)])),
      Product(Offer(JStr(<<"4", "9", ".", "9", "9">>), JStr(<<"E", "U", "R">>))),
      Product(JList(<<JObj([sku |-> JStr(<<"A", "1">>)]),
                      Offer(JStr(<<"5", "9", ".", "9", "9">>), JStr(USD))>>)),
      Product(JList(<<Offer(JStr(<<"1", "9", ".", "9", "9">>), JStr(<<"G", "B", "P">>)),
                      Offer(JStr(<<"5", "9", ".", "9", "9">>), JStr(USD))>>)),
      Product(Offer(JNull, JStr(USD))),
      Product(JList(<<>>)),
      JNum(100),
      Product(JStr(<<"I", "n", "S", "t", "o", "c", "k">>)) }

\* the list-valued blocks: an object without offers and then a priced one,
\* two priced objects, a number and then a priced object, and two objects
\* without a price
JsonldLists ==
    { JList(<<JObj([name |-> JStr(<<"W">>)]),
              Product(Offer(JStr(<<"4", "9", ".", "9", "9">>), JStr(<<"E", "U", "R">>)))>>),
      JList(<<Product(JObj([price |-> JNum(12900)])),
              Product(Offer(JStr(<<"4", "9", ".", "9", "9">>), JStr(<<"E", "U", "R">>)))>>),
      JList(<<JNum(100),
              Product(Offer(JStr(<<"4", "9", ".", "9", "9">>), JStr(<<"E", "U", "R">>)))>>),
      JList(<<JObj([name |-> JStr(<<"W">>)]),
              Product(JObj([price |-> JStr(<<"n", "/", "a">>)]))>>) }

JsonldBlocks ==
    {Malformed}
    \cup {Loaded(i) : i \in JsonldItems_Single \cup JsonldLists}

\* the pages of one to MaxBlocks ld+json script blocks
JsonldPages ==
    { Doc(None, blocks, <<>>, <<>>) :
        blocks \in UNION { [1..n -> JsonldBlocks] : n \in 1..MaxBlocks } }

\* number of meta elements of a page
MaxMetas == 2

\* the meta elements of a page: each known kind with empty content, with
\* content that holds no price token and with a price of its own, and an
\* element of no known kind
MetaKinds ==
    { MetaTag("property", "product:price:amount", <<>>),
      MetaTag("property", "product:price:amount", <<"n", "/", "a">>),
      MetaTag("property", "product:price:amount", <<"1", "4", "9", ".", "9", "9">>),
      MetaTag("itemprop", "price", <<>>),
      MetaTag("itemprop", "price", <<"s", "o", "o", "n">>),
      MetaTag("itemprop", "price",
              <<"U", "S", "D", " ", "2", "4", ".", "5", "0", " ", "w", "a", "s", " ", "$", "3", "0">>),
      MetaTag("name", "twitter:data1", <<>>),
      MetaTag("name", "twitter:data1", <<"f", "r", "e", "e">>),
      MetaTag("name", "twitter:data1", <<"$", "5">>),
      MetaTag("name", "description", <<"$", "1">>) }

\* the pages of one to MaxMetas meta elements
MetaPages ==
    { Doc(None, <<>>, tags, <<>>) :
        tags \in UNION { [1..n -> MetaKinds] : n \in 1..MaxMetas } }

StrategyPages == ScanPages \cup JsonldPages \cup MetaPages

StrategyInit ==
    /\ GetPriceIdle
    /\ use_js_fallback = FALSE
    /\ PatternIdle
    /\ CallsIdle
    /\ ServiceIdle
    /\ page \in StrategyPages
    /\ order = <<>>
    /\ ret = None

Applied(fn, out) == Some([fn |-> fn, out |-> out])

StrategyFrame == UNCHANGED <<page, order, callVars, patternVars, callsVars, serviceVars>>

\* parse_price_from_jsonld(page)
apply_parse_price_from_jsonld ==
    /\ ret = None
    /\ ret' = Applied("jsonld", parse_price_from_jsonld(page))
    /\ StrategyFrame

\* parse_price_from_meta(page)
apply_parse_price_from_meta ==
    /\ ret = None
    /\ ret' = Applied("meta", parse_price_from_meta(page))
    /\ StrategyFrame

\* smart_find_price(page)
apply_smart_find_price ==
    /\ ret = None
    /\ ret' = Applied("smart", smart_find_price(page))
    /\ order' = HintMatches(page) \o TextMatches(page, 1)
    /\ UNCHANGED <<page, callVars, patternVars, callsVars, serviceVars>>

\* the loop of smart_find_price over the collected elements, taken in any
\* order
apply_scan ==
    /\ ret = None
    /\ \E o \in Orders(Range(Collected(page))) :
         /\ order' = o
         /\ ret' = Applied("scan", BestValue(ScanNodes(page, o, {}, None)))
    /\ UNCHANGED <<page, callVars, patternVars, callsVars, serviceVars>>

StrategyNext ==
    \/ apply_parse_price_from_jsonld
    \/ apply_parse_price_from_meta
    \/ apply_smart_find_price
    \/ apply_scan

StrategySpec == StrategyInit /\ [][StrategyNext]_vars

\* the heuristic scan alone, on the pages of candidate blocks
ScanInit ==
    /\ GetPriceIdle
    /\ use_js_fallback = FALSE
    /\ PatternIdle
    /\ CallsIdle
    /\ ServiceIdle
    /\ page \in ScanPages
    /\ order = <<>>
    /\ ret = None

ScanNext ==
    \/ apply_smart_find_price
    \/ apply_scan

ScanSpec == ScanInit /\ [][ScanNext]_vars

\* the collected elements of d whose text holds a price token
Candidates(d) ==
    {el \in Range(Collected(d)) : PRICE_REGEX_search(ElText(d, el)).matched}

ValueOf(d, el) == MatchValue(PRICE_REGEX_search(ElText(d, el)))

ScoreIn(d, el) == candidate_score(d, el, ValueOf(d, el), ElText(d, el))

\* the score and the value of every candidate of d
Scored(d) ==
    {[score |-> ScoreIn(d, el), value |-> ValueOf(d, el)] : el \in Candidates(d)}

\* the entries of a set of scored candidates with the highest score
TopScored(scored) ==
    {c \in scored : \A other \in scored : other.score <= c.score}

\* the lowest value of a set of scored candidates
Lowest(top) == (CHOOSE c \in top : \A other \in top : c.value <= other.value).value

\* the lowest value among the candidates of d with the highest score
LowestTop(d) == Lowest(TopScored(Scored(d)))

Scanned == ret # None /\ ret[1].fn \in {"smart", "scan"}

(* C13: smart_find_price returns the lowest value among the candidates     *)
(* with the highest score, in whatever order the candidates are collected, *)
(* and nothing when no candidate holds a price token.                      *)
C13_BestCandidate ==
    Scanned
    => ret[1].out = IF Candidates(page) = {} THEN NoResult
                    ELSE Found(LowestTop(page), JStr(USD))

\* two equally scored candidates 79.99 and 99.99, scanned with 99.99 first,
\* give 79.99
C13_Witness ==
    /\ Scanned
    /\ ret[1].fn = "scan"
    /\ Len(order) = 2
    /\ ValueOf(page, order[1]) = 9999
    /\ ValueOf(page, order[2]) = 7999
    /\ ScoreIn(page, order[1]) = ScoreIn(page, order[2])
    /\ ret[1].out = Found(7999, JStr(USD))

\* the score of a candidate before the penalty on a value of zero or less
BaseScore(d, el) == ScoreIn(d, el) + (IF ValueOf(d, el) <= 0 THEN 5 ELSE 0)

(* C14: in the heuristic scan a candidate of value 0.00 is never selected  *)
(* when there is a candidate of positive value whose base score is equal   *)
(* to or lower than the base score of the zero candidate.                  *)
C14_ZeroNeverBeatsPositive ==
    Scanned
    => ~(/\ ret[1].out = Found(0, JStr(USD))
         /\ \E z, q \in Candidates(page) :
              /\ ValueOf(page, z) = 0
              /\ ValueOf(page, q) > 0
              /\ BaseScore(page, q) <= BaseScore(page, z))

\* "price" in id_class
PriceSignal(d, el) == Contains(IdClass(d[el]), PRICE_WORD)

\* any(w in id_class for w in ("final", "current", "sale"))
CurrentSignal(d, el) == \E w \in CURRENT_WORDS : Contains(IdClass(d[el]), w)

\* any(w in near for w in POS_NEAR)
NearPositive(d, el) == \E w \in POS_NEAR : Contains(nearby_text(d, el), w)

\* any(w in low for w in NEG_WORDS): a negative word in the candidate's own text
OwnNegative(d, el) == \E w \in NEG_WORDS : Contains(Lower(ElText(d, el)), w)

\* a negative word in the text of the candidate's ancestors
NearNegative(d, el) == \E w \in NEG_WORDS : Contains(nearby_text(d, el), w)

\* a and b are the two candidates of d, both of positive value, and agree
\* on every signal but the negative word
TwoAlike(d, a, b) ==
    /\ Candidates(d) = {a, b}
    /\ a # b
    /\ PriceSignal(d, a) = PriceSignal(d, b)
    /\ CurrentSignal(d, a) = CurrentSignal(d, b)
    /\ NearPositive(d, a) = NearPositive(d, b)
    /\ ValueOf(d, a) > 0
    /\ ValueOf(d, b) > 0

(* C15 as stated: of two candidates with the same "price" signal, the one  *)
(* whose nearby text contains a negative word scores strictly lower and    *)
(* smart_find_price returns the value of the other.                        *)
C15_NearbyNegativeLoses ==
    Scanned
    => LET cands == Candidates(page)
       IN  Cardinality(cands) = 2
           => \A a, b \in cands :
                (TwoAlike(page, a, b) /\ NearNegative(page, a) /\ ~NearNegative(page, b))
                => /\ ScoreIn(page, a) < ScoreIn(page, b)
                   /\ ret[1].out = Found(ValueOf(page, b), JStr(USD))

(* C15 amended: of two candidates with the same "price" signal, the one    *)
(* whose own text contains a negative word scores strictly lower and       *)
(* smart_find_price returns the value of the other.                        *)
C15_OwnNegativeLoses ==
    Scanned
    => LET cands == Candidates(page)
       IN  Cardinality(cands) = 2
           => \A a, b \in cands :
                (TwoAlike(page, a, b) /\ OwnNegative(page, a) /\ ~OwnNegative(page, b))
                => /\ ScoreIn(page, a) < ScoreIn(page, b)
                   /\ ret[1].out = Found(ValueOf(page, b), JStr(USD))

\* "Was $59.99" and "$79.99", both of class price: 79.99 is returned although
\* it is the higher value
C15_Witness ==
    /\ Scanned
    /\ ret[1].fn = "smart"
    /\ \E a, b \in Candidates(page) :
         /\ TwoAlike(page, a, b)
         /\ OwnNegative(page, a)
         /\ ~OwnNegative(page, b)
         /\ ValueOf(page, a) = 5999
         /\ ValueOf(page, b) = 7999
    /\ ret[1].out = Found(7999, JStr(USD))

\* the values of the structured-data blocks of d that json.loads accepts, in
\* document order, the members of a list-valued block one by one
RECURSIVE ItemsFrom(_, _)
ItemsFrom(d, n) ==
    IF n > Len(d) THEN <<>>
    ELSE (IF d[n].tag = "script" /\ ~d[n].json.malformed
          THEN IF d[n].json.data.k = "list" THEN d[n].json.data.items
               ELSE <<d[n].json.data>>
          ELSE <<>>)
         \o ItemsFrom(d, n + 1)

\* the offers of an object, its first entry when it is a list
FirstOffer(item) ==
    IF item.f.offers.k = "list" THEN item.f.offers.items[1] ELSE item.f.offers

\* item is an object whose offers carry a price that converts to a number
Qualifies(item) ==
    /\ item.k = "obj"
    /\ "offers" \in DOMAIN item.f
    /\ Truthy(item.f.offers)
    /\ FirstOffer(item).k = "obj"
    /\ "price" \in DOMAIN FirstOffer(item).f
    /\ FloatOfPrice(FirstOffer(item).f.price) # None

\* the pair of the first object that qualifies, nothing when there is none
FirstQualifying(items) ==
    IF \E i \in 1..Len(items) : Qualifies(items[i])
    THEN LET i == CHOOSE i \in 1..Len(items) :
                    /\ Qualifies(items[i])
                    /\ \A h \in 1..(i - 1) : ~Qualifies(items[h])
             offer == FirstOffer(items[i])
         IN  Found(FloatOfPrice(offer.f.price)[1],
                   IF "priceCurrency" \in DOMAIN offer.f THEN offer.f.priceCurrency
                   ELSE JStr(USD))
    ELSE NoResult

(* C16: parse_price_from_jsonld returns the price and currency of the      *)
(* first object, in document order over the blocks and over the members of *)
(* a list-valued block, whose offers (the first entry of a list) carry a   *)
(* price that converts; malformed blocks, objects without offers and       *)
(* offers without a convertible price are skipped, and there is no result  *)
(* when nothing qualifies.                                                 *)
C16_FirstConvertibleOffer ==
    (ret # None /\ ret[1].fn = "jsonld")
    => ret[1].out = FirstQualifying(ItemsFrom(page, 1))

\* the meta elements of d of known kind k (an entry of metas), in document
\* order
KindTags(d, k) ==
    { n \in 1..Len(d) : /\ d[n].tag = "meta"
                        /\ metas[k][1] \in DOMAIN d[n].attrs
                        /\ d[n].attrs[metas[k][1]] = metas[k][2] }

\* the content attribute of the first element of kind k
KindContent(d, k) ==
    LET n == CHOOSE n \in KindTags(d, k) : \A h \in KindTags(d, k) : n <= h
    IN  IF "content" \in DOMAIN d[n].attrs THEN d[n].attrs.content ELSE <<>>

\* kind k is present with non-empty content
Present(d, k) == KindTags(d, k) # {} /\ KindContent(d, k) # <<>>

\* kind k is present with content that holds a price token
Priced(d, k) == Present(d, k) /\ PRICE_REGEX_search(KindContent(d, k)).matched

\* the first price token of the content of kind k, with currency "USD"
KindPrice(d, k) == Found(MatchValue(PRICE_REGEX_search(KindContent(d, k))), JStr(USD))

MetaApplied == ret # None /\ ret[1].fn = "meta"

(* C17 as stated: the result of parse_price_from_meta is taken from the    *)
(* first known tag, in the order product:price:amount, itemprop=price,     *)
(* twitter:data1, that is present with non-empty content: the first price  *)
(* token of its content with currency "USD"; no result when that content   *)
(* holds no token or when no known tag is present with content.            *)
C17_FirstPresentTag ==
    MetaApplied =>
        IF \E k \in 1..Len(metas) : Present(page, k)
        THEN LET k == CHOOSE k \in 1..Len(metas) :
                        Present(page, k) /\ \A h \in 1..(k - 1) : ~Present(page, h)
             IN  ret[1].out = IF Priced(page, k) THEN KindPrice(page, k) ELSE NoResult
        ELSE ret[1].out = NoResult

(* C17, amended: the result of parse_price_from_meta is taken from the     *)
(* first known tag, in the fixed order, that is present with content       *)
(* holding a price token: a tag that is absent, has empty content or has   *)
(* content without a token is passed over; no result when no known tag     *)
(* holds a token. Only the first element of each kind is looked at.        *)
C17_FirstPricedTag ==
    MetaApplied =>
        IF \E k \in 1..Len(metas) : Priced(page, k)
        THEN LET k == CHOOSE k \in 1..Len(metas) :
                        Priced(page, k) /\ \A h \in 1..(k - 1) : ~Priced(page, h)
             IN  ret[1].out = KindPrice(page, k)
        ELSE ret[1].out = NoResult

\* a tag with content that holds no token was passed over and a later kind
\* gave the price
C17_Witness ==
    /\ MetaApplied
    /\ Present(page, 1) /\ ~Priced(page, 1)
    /\ Priced(page, 3)
    /\ ret[1].out = Found(500, JStr(USD))

----------------------------------------------------------------------------
(* A selector that produces no price *)

\* the selector was tried on the documents of this call
SelectorTried == \E i \in DOMAIN trace : trace[i].op = "selector"

\* how get_price(url, None) ends on the documents this call was served,
\* with the same flag
WithoutSelector ==
    Outcome(RunAlone(NewCall(1, [k |-> "none"]), Site(soup, soup_js), use_js_fallback))

(* C18: when a selector is supplied and produces no price (no element      *)
(* matches, the first match holds no token, or the selector is malformed), *)
(* get_price ends exactly as it ends for the same documents and flag with  *)
(* no selector.                                                            *)
C18_FailedSelectorIsNoSelector ==
    (Ended /\ SelectorGiven(selector) /\ SelectorTried /\ source # "selector")
    => [raised |-> pc = "raised", result |-> result] = WithoutSelector

\* "#custom" picked an element without a token on the raw and on the
\* rendered document, and the structured data of the rendered document
\* gave the price
C18_Witness ==
    /\ pc = "returned"
    /\ selector.k = "id"
    /\ Calls("selector", "raw") # {}
    /\ Calls("selector", "js") # {}
    /\ source = "jsonld"
    /\ result[1].price # None

\* a selector that soupsieve rejects, and the heuristic scan gave the price
C18_WitnessMalformed ==
    /\ pc = "returned"
    /\ selector.k = "malformed"
    /\ SelectorTried
    /\ source = "smart"
    /\ result[1].price # None

----------------------------------------------------------------------------
(* The price pattern applied to a text *)

\* number of digits before the decimal point of a token (amounts are
\* integers in hundredths and must stay below 2^31)
MaxDigits == 6

RECURSIVE Pow10(_)
Pow10(n) == IF n = 0 THEN 1 ELSE 10 * Pow10(n - 1)

\* a piece of a token: its characters and the number they stand for
Piece(s, v) == [s |-> s, v |-> v]

\* the leading digits: 9, 99, 999, ... and 1, 10, 100, ...
Leads ==
    {Piece(Repeat("9", n), Pow10(n) - 1) : n \in 1..MaxDigits}
    \cup {Piece(<<"1">> \o Repeat("0", n - 1), Pow10(n - 1)) : n \in 1..MaxDigits}

\* what may follow a comma: two groups of three digits and one of two
Groups ==
    { Piece(<<",", "2", "9", "9">>, 299),
      Piece(<<",", "9", "9", "9">>, 999),
      Piece(<<",", "2", "9">>, 29) }

\* the decimal part: none, two digits, one digit
Decimals ==
    { Piece(<<>>, 0), Piece(<<".", "9", "9">>, 99), Piece(<<".", "5">>, 50) }

\* the currency marker: none, "$", "USD", "USD "
Markers == { <<>>, <<"$">>, USD, USD \o <<" ">> }

\* what stands before and after the token
Prefixes == { <<>>, <<"N", "o", "w", " ">>, <<"v">> }

Suffixes == { <<>>, <<"!">>, <<"x">> }

RECURSIVE Concat(_)
Concat(pieces) ==
    IF pieces = <<>> THEN <<>> ELSE Head(pieces).s \o Concat(Tail(pieces))

\* the leading digits and the comma groups after them, of MaxDigits digits
\* at most
Numbers ==
    { n \in [ lead : Leads,
              groups : UNION { [1..g -> Groups] : g \in 0..(MaxDigits \div 3) } ] :
        Len(n.lead.s) + Len(Concat(n.groups)) - Len(n.groups) <= MaxDigits }

Tokens ==
    { [prefix |-> p, marker |-> k, lead |-> n.lead, groups |-> n.groups,
       dec |-> d, suffix |-> x] :
        p \in Prefixes, k \in Markers, n \in Numbers, d \in Decimals, x \in Suffixes }

\* the text of a token
Compose(tk) ==
    tk.prefix \o tk.marker \o tk.lead.s \o Concat(tk.groups) \o tk.dec.s \o tk.suffix

PatternInit ==
    /\ GetPriceIdle
    /\ use_js_fallback = FALSE
    /\ StrategyIdle
    /\ CallsIdle
    /\ ServiceIdle
    /\ token \in Tokens
    /\ text = Compose(token)
    /\ match = None

\* m = PRICE_REGEX.search(text); if m: float(m.group(2).replace(",", ""))
Extracted(m) ==
    [m |-> m, value |-> IF m.matched THEN Some(MatchValue(m)) ELSE None]

apply_PRICE_REGEX ==
    /\ match = None
    /\ match' = Some(Extracted(PRICE_REGEX_search(text)))
    /\ UNCHANGED <<token, text, callVars, strategyVars, callsVars, serviceVars>>

PatternNext == apply_PRICE_REGEX

PatternSpec == PatternInit /\ [][PatternNext]_vars

Searched == match # None

\* the token stands apart from letters and digits on both sides
Apart == token.prefix # <<"v">> /\ token.suffix # <<"x">>

\* a marker and then bare digits: no comma group, no decimal part
BareDigits ==
    /\ Apart
    /\ token.marker # <<>>
    /\ token.groups = <<>>
    /\ token.dec.s = <<>>

\* the pattern matched and group 2 is the leading digits of the token
DigitRunExtracted ==
    /\ match[1].m.matched
    /\ match[1].m.group2 = token.lead.s
    /\ match[1].value = Some(100 * token.lead.v)

(* C19 as stated: a run of bare digits with no decimal part, of every      *)
(* length, that is immediately preceded by a currency marker is matched    *)
(* by the price pattern, and the extracted value is that digit run.        *)
C19_BareDigitsOfEveryLength ==
    (Searched /\ BareDigits) => DigitRunExtracted

(* C19, amended: a run of one to three bare digits with no decimal part    *)
(* that is immediately preceded by a currency marker is matched, and the   *)
(* extracted value is that digit run; a run of four or more bare digits    *)
(* (no comma groups, no decimal part) is not matched at all.               *)
C19_BareDigitsUpToThree ==
    (Searched /\ BareDigits)
    => IF Len(token.lead.s) <= 3 THEN DigitRunExtracted ELSE ~match[1].m.matched

\* "USD 999": three bare digits after a marker, extracted as 999
C19_Witness ==
    /\ Searched
    /\ BareDigits
    /\ token.marker = USD \o <<" ">>
    /\ token.lead.v = 999
    /\ match[1].value = Some(99900)

\* "$1000": four bare digits after a marker, not matched
C19_WitnessFour ==
    /\ Searched
    /\ BareDigits
    /\ text = <<"$", "1", "0", "0", "0">>
    /\ ~match[1].m.matched

\* one to three leading digits, then one or more comma-separated groups of
\* exactly three digits, then no or a two-digit decimal part
Grouped ==
    /\ Apart
    /\ Len(token.lead.s) <= 3
    /\ token.groups # <<>>
    /\ \A i \in 1..Len(token.groups) : Len(token.groups[i].s) = 4
    /\ Len(token.dec.s) \in {0, 3}

\* the number written by the leading digits and the groups after them
RECURSIVE WithGroups(_, _)
WithGroups(n, groups) ==
    IF groups = <<>> THEN n ELSE WithGroups(1000 * n + Head(groups).v, Tail(groups))

\* the number the token stands for with its commas deleted, in hundredths
TokenValue == 100 * WithGroups(token.lead.v, token.groups) + token.dec.v

(* C20: for a price token written with thousands separators (one to three  *)
(* leading digits, comma-separated groups of exactly three digits, an      *)
(* optional two-digit decimal part) the extracted value is the number      *)
(* obtained by deleting the commas.                                        *)
C20_CommasDeleted ==
    (Searched /\ Grouped)
    => /\ match[1].m.matched
       /\ match[1].m.group2 = token.lead.s \o Concat(token.groups) \o token.dec.s
       /\ match[1].value = Some(TokenValue)

\* "$999,999.99" gives 999999.99
C20_Witness ==
    /\ Searched
    /\ Grouped
    /\ text = <<"$", "9", "9", "9", ",", "9", "9", "9", ".", "9", "9">>
    /\ match[1].value = Some(99999999)

\* "$1,299.99" gives 1299.99
C20_WitnessExample ==
    /\ Searched
    /\ text = <<"$", "1", ",", "2", "9", "9", ".", "9", "9">>
    /\ match[1].value = Some(129999)

----------------------------------------------------------------------------
(* RateLimiter (app/security.py) *)

\* RateLimiter.CLEANUP_INTERVAL, MAX_ENTRIES and DEFAULT_WINDOW, scaled down:
\* the program's values are 300 seconds, 10000 identifiers and 60 seconds
CLEANUP_INTERVAL == 2

MAX_ENTRIES == 2

DEFAULT_WINDOW == 1

\* the limit the callers pass (settings.rate_limit_per_minute), scaled down
RATE_LIMIT == 1

\* the divisor of `len(sorted_identifiers) // 10`
EVICT_DIVISOR == 10

\* the last value of the clock
MaxTime == 2

\* the number of calls of the observed identifier answered True in a run
MaxAnswers == 2

\* the identifiers that call: enough to pass the cap
Identifiers == 1..(MAX_ENTRIES + 1)

\* the identifier whose answers are recorded
Observed == CHOOSE i \in Identifiers : \A j \in Identifiers : i <= j

Max(a, b) == IF a >= b THEN a ELSE b

\* RateLimiter(): the fields after __init__, with MAX_ENTRIES as given
NewLimiter(now, cap) ==
    [requests |-> <<>>, first_seen |-> <<>>, last_cleanup |-> now, MAX_ENTRIES |-> cap]

\* [t for t in times if now - t < window]
Recent(times, now, window) == SelectSeq(times, LAMBDA t : now - t < window)

\* the fields with the identifiers of a set deleted from both dicts
Without(L, ids) ==
    [L EXCEPT !.requests = [i \in DOMAIN L.requests \ ids |-> L.requests[i]],
              !.first_seen = SelectSeq(L.first_seen, LAMBDA e : e.id \notin ids)]

\* the cleanup proper: expired identifiers deleted, the others trimmed
CleanedAt(L, now, window, expired) ==
    [Without(L, expired) EXCEPT
        !.requests = [i \in DOMAIN L.requests \ expired |-> Recent(L.requests[i], now, window)],
        !.last_cleanup = now]

\* _maybe_cleanup(window) when time.time() gives now
maybe_cleanup(L, now, window) ==
    IF now - L.last_cleanup < CLEANUP_INTERVAL THEN L
    ELSE CleanedAt(L, now, window,
                   {i \in DOMAIN L.requests : Recent(L.requests[i], now, window) = <<>>})

\* e put into a sequence sorted by time, after the entries of the same time
InsertAt(sorted, e, k) == SubSeq(sorted, 1, k) \o <<e>> \o SubSeq(sorted, k + 1, Len(sorted))

InsertByTime(sorted, e) ==
    InsertAt(sorted, e, Cardinality({i \in 1..Len(sorted) : sorted[i].t <= e.t}))

\* sorted(self._first_seen.items(), key=lambda x: x[1]): a stable sort of the
\* items in insertion order
RECURSIVE SortedByTime(_)
SortedByTime(items) ==
    IF items = <<>> THEN <<>>
    ELSE InsertByTime(SortedByTime(SubSeq(items, 1, Len(items) - 1)), items[Len(items)])

\* num_to_remove = max(1, len(sorted_identifiers) // 10)
NumToRemove(n) == Max(1, n \div EVICT_DIVISOR)

\* variant: the newest entries are removed
Oldest_Newest(sorted) ==
    {sorted[i].id : i \in (Len(sorted) - Min(Len(sorted), NumToRemove(Len(sorted))) + 1)..Len(sorted)}

\* the identifiers of sorted_identifiers[:num_to_remove]
Oldest(sorted) == {sorted[i].id : i \in 1..Min(Len(sorted), NumToRemove(Len(sorted)))}

\* the identifiers _maybe_evict() removes
EvictedBy(L) ==
    IF Cardinality(DOMAIN L.requests) < L.MAX_ENTRIES THEN {}
    ELSE Oldest(SortedByTime(L.first_seen))

\* _maybe_evict()
maybe_evict(L) == Without(L, EvictedBy(L))

\* self._requests[identifier] = []; self._first_seen[identifier] = now
Started(L, identifier, now) ==
    [L EXCEPT !.requests = [i \in DOMAIN L.requests \cup {identifier} |->
                              IF i = identifier THEN <<>> ELSE L.requests[i]],
              !.first_seen = Append(L.first_seen, [id |-> identifier, t |-> now])]

\* if identifier not in self._requests: ...
Admitted(L, identifier, now) ==
    IF identifier \in DOMAIN L.requests THEN L
    ELSE Started(maybe_evict(L), identifier, now)

\* the requests of the identifier trimmed to the window
Trimmed(L, identifier, now, window) ==
    [L EXCEPT !.requests[identifier] = Recent(L.requests[identifier], now, window)]

\* `if len(self._requests[identifier]) >= limit: return False`
Allowed(L, identifier, limit) == Len(L.requests[identifier]) < limit

\* self._requests[identifier].append(now) when the call is allowed
Counted(L, identifier, now, limit) ==
    IF Allowed(L, identifier, limit)
    THEN [L EXCEPT !.requests[identifier] = Append(L.requests[identifier], now)]
    ELSE L

\* the fields after the cleanup, made at time later, and the admission of
\* the identifier, made with now
Prepared(L, identifier, now, later, window) ==
    Trimmed(Admitted(maybe_cleanup(L, later, window), identifier, now), identifier, now, window)

\* what a call evicted: the identifiers and the first-seen items before
Eviction(L, identifier) ==
    IF identifier \in DOMAIN L.requests \/ EvictedBy(L) = {} THEN None
    ELSE Some([ids |-> EvictedBy(L), before |-> L.first_seen])

\* the cap of a limiter that is full when the run starts
FullCap == 20

\* the identifiers of a full limiter: none of those that call
Resident(k) == MAX_ENTRIES + 1 + k

\* a limiter with the cap FullCap that FullCap identifiers have called once
\* each, the first `early` of them at time 0 and the others at time 1
FullLimiter(early) ==
    [requests |-> [i \in {Resident(k) : k \in 1..FullCap} |->
                     IF i <= Resident(early) THEN <<0>> ELSE <<1>>],
     first_seen |-> [k \in 1..FullCap |->
                       [id |-> Resident(k), t |-> IF k <= early THEN 0 ELSE 1]],
     last_cleanup |-> 0,
     MAX_ENTRIES |-> FullCap]

\* how many identifiers of a full limiter are the early ones: from none to
\* one more than an eviction removes
Earlies == 0..(NumToRemove(FullCap) + 1)

\* a new limiter with the cap MAX_ENTRIES, or a full one
LimiterInit ==
    /\ GetPriceIdle
    /\ use_js_fallback = FALSE
    /\ PatternIdle
    /\ StrategyIdle
    /\ CallsIdle
    /\ \/ clock = 0 /\ limiter = NewLimiter(0, MAX_ENTRIES)
       \/ \E early \in Earlies :
            /\ clock = 1
            /\ limiter = FullLimiter(early)
    /\ answers = <<>>
    /\ evicted = None
    /\ TrackerIdle

LimiterFrame ==
    UNCHANGED <<callVars, patternVars, strategyVars, callsVars, trackerVars>>

\* time passes
tick ==
    /\ clock < MaxTime
    /\ clock' = clock + 1
    /\ UNCHANGED <<limiter, answers, evicted>>
    /\ LimiterFrame

\* is_allowed(identifier, limit, window): time.time() is read on entry and
\* once more, no earlier, in _maybe_cleanup
is_allowed(identifier, limit, window) ==
    /\ Len(answers) < MaxAnswers
    /\ \E later \in clock..Min(clock + 1, MaxTime) :
         /\ clock' = later
         /\ evicted' = Eviction(maybe_cleanup(limiter, later, window), identifier)
         /\ answers' = IF /\ identifier = Observed
                          /\ Allowed(Prepared(limiter, identifier, clock, later, window),
                                     identifier, limit)
                       THEN Append(answers, clock)
                       ELSE answers
         /\ limiter' = Counted(Prepared(limiter, identifier, clock, later, window),
                               identifier, clock, limit)
    /\ LimiterFrame

LimiterNext ==
    \/ tick
    \/ \E identifier \in Identifiers : is_allowed(identifier, RATE_LIMIT, DEFAULT_WINDOW)

LimiterSpec == LimiterInit /\ [][LimiterNext]_vars

\* the calls of the observed identifier answered True in the span of one
\* window that ends with the i-th of them
InWindow(i) == {j \in 1..i : answers[i] - answers[j] < DEFAULT_WINDOW}

(* C21: for one identifier, after any sequence of is_allowed calls for it  *)
(* and for others, cleanup and eviction included, the calls answered True  *)
(* within any span shorter than the window are never more than the limit.  *)
C21_NeverMoreThanLimit ==
    \A i \in 1..Len(answers) : Cardinality(InWindow(i)) <= RATE_LIMIT

\* the identifiers tracked
Tracked == DOMAIN limiter.requests

\* the first-seen time an identifier had before the eviction
SeenBefore(id) ==
    (CHOOSE e \in Range(evicted[1].before) : e.id = id).t

(* C22: the tracked identifiers are never more than MAX_ENTRIES; when a    *)
(* new identifier arrives at the cap, identifiers are evicted, and every   *)
(* evicted identifier was first seen no later than every identifier that   *)
(* is kept.                                                                *)
C22_CapAndOldestFirst ==
    /\ Cardinality(Tracked) <= limiter.MAX_ENTRIES
    /\ evicted # None
       => /\ evicted[1].ids # {}
          /\ \A gone \in evicted[1].ids :
               \A e \in Range(evicted[1].before) :
                 e.id \notin evicted[1].ids => SeenBefore(gone) <= e.t

\* a full limiter whose second and third identifiers were first seen at the
\* same time: the first two were evicted and the new identifier was stored
C22_Witness ==
    /\ limiter.MAX_ENTRIES = FullCap
    /\ Cardinality(Tracked) = FullCap - 1
    /\ evicted # None
    /\ evicted[1].ids = {Resident(1), Resident(2)}
    /\ SeenBefore(Resident(1)) = 0
    /\ SeenBefore(Resident(2)) = 1
    /\ SeenBefore(Resident(3)) = 1

\* a limiter with the cap MAX_ENTRIES evicted its oldest identifier
C22_WitnessSmall ==
    /\ limiter.MAX_ENTRIES = MAX_ENTRIES
    /\ Cardinality(Tracked) = MAX_ENTRIES
    /\ evicted # None
    /\ \E e \in Range(evicted[1].before) : e.id \notin evicted[1].ids


\* ---------------------------------------------------------------------------
\* Trackers, their price history and the polling cycles
\* (app/services/tracker_service.py, app/services/scheduler_service.py,
\* app/scheduler.py). Prices are in hundredths.

MaxTrackers == 2

MaxHistory == 2

MaxPrice == 2

\* a row of the trackers table (app/models.py); its id is its position
Tracker(is_active, last_price) == [is_active |-> is_active, last_price |-> last_price]

\* a row of the price_history table
PriceHistory(tracker_id, price, delta) ==
    [tracker_id |-> tracker_id, price |-> price, delta |-> delta]

\* what a get_price call does: it raises, or returns a price or no price
GetPriceOutcomes ==
    {[raised |-> TRUE, price |-> None]}
        \cup {[raised |-> FALSE, price |-> p] :
                p \in {None} \cup {Some(n) : n \in 1..MaxPrice}}

\* delta = round(price - last_price, 2), or None without a previous price
Delta(price, last_price) ==
    IF last_price = None THEN None ELSE Some(price - last_price[1])

\* the variant of the change test that takes every found price for a change
Changed_Always(price, last_price) == TRUE

\* last_price is None or abs(price - last_price) > 1e-6
Changed(price, last_price) == last_price = None \/ price # last_price[1]

\* delta is not None and abs(delta) > 1e-6
Notifies(delta) == delta # None /\ delta[1] # 0

\* the price-history row added and last_price set, in one commit
Recorded(d, tracker_id, price) ==
    [d EXCEPT !.price_history =
                  Append(@, PriceHistory(tracker_id, price,
                                         Delta(price, d.trackers[tracker_id].last_price))),
              !.trackers[tracker_id].last_price = Some(price)]

\* a found price that is a change
PriceChange(d, tracker_id, got) ==
    /\ ~got.raised
    /\ got.price # None
    /\ Changed(got.price[1], d.trackers[tracker_id].last_price)

\* the rows after one tracker was handled; a failed commit stores nothing
Updated(d, tracker_id, got, committed) ==
    IF PriceChange(d, tracker_id, got) /\ committed
    THEN Recorded(d, tracker_id, got.price[1])
    ELSE d

\* the notification of a committed change against a previous price
Alerts(d, tracker_id, got, committed) ==
    IF /\ PriceChange(d, tracker_id, got)
       /\ committed
       /\ Notifies(Delta(got.price[1], d.trackers[tracker_id].last_price))
    THEN <<[tracker_id |-> tracker_id, price |-> got.price[1],
            delta |-> got.price[1] - d.trackers[tracker_id].last_price[1]]>>
    ELSE <<>>

\* the price create_tracker starts with: a failed fetch is only logged
InitialPrice(got) == IF got.raised THEN None ELSE got.price

\* create_tracker commits the tracker, then the first price-history row in a
\* commit of its own; a failed commit is rolled back
Created(d, price, committed, recorded) ==
    IF ~committed
    THEN d
    ELSE [trackers |-> Append(d.trackers, Tracker(TRUE, price)),
          price_history |->
              IF price # None /\ recorded
              THEN Append(d.price_history,
                          PriceHistory(Len(d.trackers) + 1, price[1], None))
              ELSE d.price_history]

\* query(Tracker).filter(Tracker.is_active == True).all()
ActiveTrackers(d) ==
    SelectSeq([i \in 1..Len(d.trackers) |-> i], LAMBDA i : d.trackers[i].is_active)

NoCycle == [impl |-> "none", queried |-> <<>>, polled |-> <<>>, state |-> "idle"]

\* a refresh_tracker_price call: its tracker, what get_price did and whether
\* the commit went through
Handled(tracker_id, got, committed) ==
    [op |-> "refresh", tracker_id |-> tracker_id, got |-> got,
     committed |-> committed]

\* the last operation was not a refresh_tracker_price call
NoRequest ==
    [op |-> "other", tracker_id |-> 0, got |-> [raised |-> FALSE, price |-> None],
     committed |-> FALSE]

\* the trackers stored before the first operation: none has a price yet
InitialTrackers ==
    UNION {[1..n -> {Tracker(a, None) : a \in BOOLEAN}] : n \in 0..MaxTrackers}

TrackerInit ==
    /\ GetPriceIdle
    /\ use_js_fallback = FALSE
    /\ PatternIdle
    /\ StrategyIdle
    /\ CallsIdle
    /\ LimiterIdle
    /\ \E ts \in InitialTrackers : db = [trackers |-> ts, price_history |-> <<>>]
    /\ cycle = NoCycle
    /\ sent = <<>>
    /\ request = NoRequest

TrackerFrame ==
    UNCHANGED <<callVars, patternVars, strategyVars, callsVars, limiterVars>>

\* TrackerService.create_tracker
create_tracker ==
    /\ Len(db.trackers) < MaxTrackers
    /\ Len(db.price_history) < MaxHistory
    /\ \E got \in GetPriceOutcomes, committed \in BOOLEAN, recorded \in BOOLEAN :
         db' = Created(db, InitialPrice(got), committed, recorded)
    /\ request' = NoRequest
    /\ UNCHANGED <<cycle, sent>>
    /\ TrackerFrame

\* TrackerService.refresh_tracker_price of a stored tracker
refresh_tracker_price ==
    /\ Len(db.price_history) < MaxHistory
    /\ \E tracker_id \in 1..Len(db.trackers), got \in GetPriceOutcomes,
          committed \in BOOLEAN :
         /\ db' = Updated(db, tracker_id, got, committed)
         /\ sent' = sent \o Alerts(db, tracker_id, got, committed)
         /\ request' = Handled(tracker_id, got, committed)
    /\ UNCHANGED cycle
    /\ TrackerFrame

\* the query that opens a cycle of SchedulerService.poll_all_trackers
\* ("service") or of app.scheduler.poll_all_trackers ("job")
poll_all_trackers ==
    /\ cycle.state # "polling"
    /\ \E impl \in {"service", "job"} :
         cycle' = [impl |-> impl, queried |-> ActiveTrackers(db), polled |-> <<>>,
                   state |-> IF ActiveTrackers(db) = <<>> THEN "ended" ELSE "polling"]
    /\ request' = NoRequest
    /\ UNCHANGED <<db, sent>>
    /\ TrackerFrame

\* the tracker the cycle handles next
NextTracker == cycle.queried[Len(cycle.polled) + 1]

\* the cycle after one more tracker: it ends with the last one, or with an
\* exception that leaves the loop
Polled(aborted) ==
    [cycle EXCEPT !.polled = Append(@, NextTracker),
                  !.state = IF aborted THEN "aborted"
                            ELSE IF Len(cycle.polled) + 1 = Len(cycle.queried)
                                 THEN "ended" ELSE "polling"]

\* SchedulerService._poll_tracker inside the loop of poll_all_trackers:
\* every exception is caught and logged, a failed delivery included
poll_tracker_service ==
    /\ cycle.impl = "service"
    /\ cycle.state = "polling"
    /\ Len(db.price_history) < MaxHistory
    /\ \E got \in GetPriceOutcomes, committed \in BOOLEAN :
         /\ db' = Updated(db, NextTracker, got, committed)
         /\ sent' = sent \o Alerts(db, NextTracker, got, committed)
    /\ request' = NoRequest
    /\ cycle' = Polled(FALSE)
    /\ TrackerFrame

\* one turn of the loop of app.scheduler.poll_all_trackers: only get_price
\* is inside a try; a failed commit and a failed send_email / send_sms raise
poll_tracker_job ==
    /\ cycle.impl = "job"
    /\ cycle.state = "polling"
    /\ Len(db.price_history) < MaxHistory
    /\ \E got \in GetPriceOutcomes, committed \in BOOLEAN, delivered \in BOOLEAN :
         /\ db' = Updated(db, NextTracker, got, committed)
         /\ sent' = sent \o Alerts(db, NextTracker, got, committed)
         /\ request' = NoRequest
         /\ cycle' = Polled(\/ PriceChange(db, NextTracker, got) /\ ~committed
                            \/ Alerts(db, NextTracker, got, committed) # <<>>
                                 /\ ~delivered)
    /\ TrackerFrame

TrackerNext ==
    \/ create_tracker
    \/ refresh_tracker_price
    \/ poll_all_trackers
    \/ poll_tracker_service
    \/ poll_tracker_job

TrackerSpec == TrackerInit /\ [][TrackerNext]_vars

\* the requests alone, with no polling cycle under way
RequestNext ==
    \/ create_tracker
    \/ refresh_tracker_price

RequestSpec == TrackerInit /\ [][RequestNext]_vars

\* C23: a polling cycle calls get_price once for every active tracker and
\* for no inactive one, and a failure while handling one tracker (fetch,
\* database update, delivery of the notification) never keeps the remaining
\* active trackers from being polled, in the service and in the job alike.
C23_FailureNeverStopsTheCycle ==
    /\ \A i \in 1..Len(cycle.polled) :
         /\ db.trackers[cycle.polled[i]].is_active
         /\ cycle.polled[i] = cycle.queried[i]
    /\ cycle.state \in {"ended", "aborted"} => cycle.polled = cycle.queried


\* the last operation was a refresh_tracker_price that found a price and
\* met no database error
RefreshFound(r) ==
    /\ r.op = "refresh"
    /\ ~r.got.raised
    /\ r.got.price # None
    /\ r.committed

\* C24: refresh_tracker_price with a found price appends exactly one
\* price-history record (delta = new price minus last_price, none without
\* a previous price) and sets last_price when there was no previous price or
\* the price differs; an unchanged price appends nothing, leaves last_price
\* and sends no notification; a notification is sent only for a change
\* against an existing previous price.
C24_RefreshRecordsAChangeOnly ==
    [][RefreshFound(request') =>
         LET id     == request'.tracker_id
             price  == request'.got.price[1]
             before == db.trackers[id].last_price
         IN  IF before = None \/ before[1] # price
             THEN /\ db'.price_history =
                        Append(db.price_history,
                               [tracker_id |-> id, price |-> price,
                                delta |-> IF before = None THEN None
                                          ELSE Some(price - before[1])])
                  /\ db'.trackers =
                        [db.trackers EXCEPT ![id].last_price = Some(price)]
                  /\ Len(sent') = Len(sent) + (IF before = None THEN 0 ELSE 1)
             ELSE /\ db' = db
                  /\ sent' = sent]_vars

\* a refresh that found a new price for a tracker with a previous one
C24_Witness ==
    /\ RefreshFound(request)
    /\ sent # <<>>
    /\ sent[Len(sent)].tracker_id = request.tracker_id
    /\ db.price_history # <<>>
    /\ db.price_history[Len(db.price_history)].delta # None
    /\ db.price_history[Len(db.price_history)].tracker_id = request.tracker_id

\* C30: after any sequence of create_tracker, refresh_tracker_price and
\* poll operations, successful or not, every stored tracker's last_price is
\* none exactly when it has no price-history record, and is otherwise the
\* price of its most recently appended record.
C30_LastPriceIsLatestRecord ==
    \A id \in 1..Len(db.trackers) :
        LET records == SelectSeq(db.price_history, LAMBDA h : h.tracker_id = id)
        IN  IF records = <<>>
            THEN db.trackers[id].last_price = None
            ELSE db.trackers[id].last_price = Some(records[Len(records)].price)


----------------------------------------------------------------------------
(* The rendered fallback of get_price *)

\* the call returned from inside the fallback, after the rendered fetch
ReturnedFromFallback == pc = "returned" /\ phase = "js" /\ soup_js # <<>>

\* what the strategy src gives on doc, None for no strategy
StrategyValue(src, doc) ==
    CASE src = "selector" -> SelectorAttempt(doc, selector).value
      [] src = "jsonld" -> parse_price_from_jsonld(doc).value
      [] src = "meta" -> parse_price_from_meta(doc).value
      [] src = "smart" -> smart_find_price(doc).value
      [] OTHER -> None

\* the price and the currency of the returned triple are those of v, and
\* none and "USD" when v is None
Gives(v) ==
    IF v = None
    THEN result[1].price = None /\ result[1].currency = JStr(USD)
    ELSE result[1].price = Some(v[1].price) /\ result[1].currency = v[1].currency

\* C25 as stated: when the rendered fallback is invoked every field of the
\* returned result, the title included, is derived from the rendered
\* document and none from the raw one.
C25_RenderedSupersedesRaw ==
    ReturnedFromFallback
    => /\ result[1].title = extract_title(soup_js)
       /\ Gives(StrategyValue(source, soup_js))

\* C25: when the rendered fallback is invoked the price and the currency of
\* the returned result are what the returning strategy gives on the rendered
\* document, and the title is the one extracted from the raw document.
C25_PriceFromRenderedTitleFromRaw ==
    ReturnedFromFallback
    => /\ result[1].title = extract_title(soup)
       /\ Gives(StrategyValue(source, soup_js))

\* the fallback found a price on a rendered document whose title is not
\* the raw document's
C25_Witness ==
    /\ ReturnedFromFallback
    /\ result[1].price # None
    /\ extract_title(soup_js) # None
    /\ extract_title(soup) # None
    /\ extract_title(soup_js) # extract_title(soup)

\* what the chain selector attempt, structured data, meta tags, heuristic
\* scan gives on doc, stopping at the first result
FullChainValue(doc) ==
    IF SelectorGiven(selector) /\ SelectorAttempt(doc, selector) # NoResult
    THEN SelectorAttempt(doc, selector).value
    ELSE ChainValue(doc)

\* C29: when the rendered fallback runs, the price and currency it
\* contributes are exactly what the chain selector attempt, structured
\* data, meta tags, heuristic scan (in that order, same selector, stopping
\* at the first result) yields on the rendered document.
C29_FallbackIsTheChainOnRendered ==
    ReturnedFromFallback => Gives(FullChainValue(soup_js))


----------------------------------------------------------------------------
(* The score of a candidate and the elements that are scored *)

\* 1 when the signal holds, else 0
Bit(signal) == IF signal THEN 1 ELSE 0

\* the inputs of the score of el on d, its signals and its score
ProfileOf(d, el, value, raw) ==
    [score   |-> candidate_score(d, el, value, raw),
     inputs  |-> <<IdClass(d[el]), nearby_text(d, el), value, raw>>,
     price   |-> PriceSignal(d, el),
     current |-> CurrentSignal(d, el),
     others  |-> 2 * Bit(NearPositive(d, el))
                   - 3 * Bit(\E w \in NEG_WORDS : Contains(Lower(raw), w))
                   - 5 * Bit(value <= 0),
     value   |-> value]

\* the profiles of the candidates of d
Profiles(d) ==
    {ProfileOf(d, el, ValueOf(d, el), ElText(d, el)) : el \in Candidates(d)}

\* smart_find_price was applied to the page
SmartApplied == ret # None /\ ret[1].fn = "smart"

\* C26 as stated: the +1 for a current/final/sale word in the id+class
\* string is given only in addition to the +3: an element whose id+class
\* string does not contain "price" never receives it.
C26_BonusOnlyWithPrice ==
    SmartApplied
    => \A c \in Profiles(page) : ~c.price => c.score = c.others

\* C26: the +1 for a current/final/sale word in the id+class string is given
\* whether or not that string contains "price": alone it adds 1, together
\* with "price" the two add 4.
C26_BonusByItself ==
    SmartApplied
    => \A c \in Profiles(page) :
         c.current => c.score - c.others = (IF c.price THEN 4 ELSE 1)

\* a candidate of class "sale", scored 1, wins over a cheaper candidate
\* of score 0
C26_Witness ==
    /\ Scanned
    /\ \E el \in Candidates(page) :
         /\ CurrentSignal(page, el)
         /\ ~PriceSignal(page, el)
         /\ ScoreIn(page, el) = 1
         /\ ret[1].out = Found(ValueOf(page, el), JStr(USD))
         /\ \E other \in Candidates(page) :
              /\ ScoreIn(page, other) = 0
              /\ ValueOf(page, other) < ValueOf(page, el)

\* C27: the score of a candidate is exactly the sum of the fixed weights of
\* the signals that hold (+3 price, +1 current/final/sale, -3 negative word
\* in its own text, +2 positive word in the ancestors' text, -5 value <= 0),
\* each independently of the others; it lies between -8 and +6 and is the
\* same for the same id+class, ancestors' text, value and raw text.
C27_ScoreIsSumOfWeights ==
    SmartApplied
    => LET profiles == Profiles(page)
       IN  /\ \A c \in profiles :
                /\ c.score = 3 * Bit(c.price) + Bit(c.current) + c.others
                /\ c.score \in (0 - 8)..6
           /\ \A a, b \in profiles : a.inputs = b.inputs => a.score = b.score

\* a page with a candidate on which a bonus and a penalty meet ("Was
\* $59.99" of class price, score 0) next to one with another score
C27_Witness ==
    /\ Scanned
    /\ \E a, b \in Candidates(page) :
         /\ PriceSignal(page, a)
         /\ OwnNegative(page, a)
         /\ ScoreIn(page, a) = 0
         /\ ScoreIn(page, b) # 0

\* the first occurrences of the elements of a list, in its order
RECURSIVE FirstOccurrences(_)
FirstOccurrences(nodes) ==
    IF nodes = <<>> THEN <<>>
    ELSE <<Head(nodes)>>
         \o FirstOccurrences(SelectSeq(Tail(nodes), LAMBDA n : n # Head(nodes)))

\* C28: in one smart_find_price pass every distinct element is scored at
\* most once, even when several hint selectors and the text scan collect
\* it, and the returned value is the same as when each element is collected
\* only once.
C28_EachElementScoredOnce ==
    SmartApplied
    => /\ \A i, j \in 1..Len(Visited(order, {})) :
            Visited(order, {})[i] = Visited(order, {})[j] => i = j
       /\ Range(Visited(order, {})) = Range(order)
       /\ ret[1].out = BestValue(ScanNodes(page, FirstOccurrences(order), {}, None))

\* a priced element collected more than once
C28_Witness ==
    /\ ret # None
    /\ ret[1].fn = "smart"
    /\ ret[1].out # NoResult
    /\ \E i, j \in 1..Len(order) :
         /\ i < j
         /\ order[i] = order[j]
         /\ order[i] \in Candidates(page)

====
